---- MODULE Spec2Model ----
(***************************************************************************)
(* Tip of the Iceberg: the simulation core of the platformer.              *)
(*                                                                         *)
(* The model follows GameEngine (engine.ts), TimeoutManager,               *)
(* TitanicAnimationSystem, GhostCharacter, Obstacle, Door, Chalice,        *)
(* PhysicsSystem, LevelManager and InputHandler.                           *)
(*                                                                         *)
(* Units.  The code computes in floating-point seconds and pixels.  Here   *)
(* time is counted in 1/TicksPerSecond s and lengths in 1/PX pixel, so     *)
(* that every value the code computes on the inputs of this model is an    *)
(* integer: velocities are in length units per second and                  *)
(* v * dt / TicksPerSecond is exact for every dt of the model.             *)
(*                                                                         *)
(* Rendering, the camera, sea creatures, fireworks and the rotation        *)
(* animation read this state and never write it; they are not modelled.    *)
(***************************************************************************)
EXTENDS Integers, Sequences, FiniteSets, TLC

\* time units per second (deltaTime is in seconds in the code)
TicksPerSecond == 10
\* length units per pixel (the lobby start x is canvas.width/2 - 35/2)
PX == 2

\* the frame interval of a slow frame, in time units; the tick source
\* delivers frames of interval 0 (two frames at one timestamp) and FrameDt
FrameDt == 5
DtSet == {0, FrameDt}
\* the lobby door's random offset from the canvas centre, in pixels
DoorOffsets == {-120, 0, 69}
\* Math.random() draws, as numerators over DrawDen: 0 and 1/2, and for the
\* level generator on its own also the largest draw
DrawDen == 16
DrawNums == {0, DrawDen \div 2}
WidthNums == DrawNums \cup {DrawDen - 1}

Min(a, b) == IF a <= b THEN a ELSE b
Max(a, b) == IF a >= b THEN a ELSE b
Abs(a) == IF a < 0 THEN -a ELSE a

(***************************************************************************)
(* Static configuration                                                    *)
(***************************************************************************)
CANVAS_WIDTH == 800 * PX
CANVAS_HEIGHT == 600 * PX
GRAVITY == 800 * PX
JUMP_STRENGTH == -400 * PX
TERMINAL_VELOCITY == 600 * PX
GROUND_Y == 550 * PX
HORIZONTAL_SPEED == 200 * PX
PLATFORM_WIDTH == 1200 * PX
CHARACTER_WIDTH == 35 * PX
CHARACTER_HEIGHT == 40 * PX
DOOR_WIDTH == 60 * PX
DOOR_HEIGHT == 80 * PX
CHALICE_WIDTH == 40 * PX
CHALICE_HEIGHT == 50 * PX
WATER_LEVEL == CANVAS_HEIGHT \div 10
TIMEOUT_DURATION == 5 * TicksPerSecond
FALLING_LIMIT == 2 * TicksPerSecond
SINK_SPEED == 200 * PX
MAX_LEVEL == 6

LevelConfig(count, spacing, h0, h1, w0, w1, doorY, chalice) ==
  [obstacleCount |-> count,
   obstacleMinSpacing |-> spacing * PX,
   obstacleHeightRange |-> << h0 * PX, h1 * PX >>,
   obstacleWidthRange |-> << w0 * PX, w1 * PX >>,
   doorPosition |-> [x |-> 700 * PX, y |-> doorY * PX],
   hasChalicePosition |-> chalice,
   chalicePosition |-> [x |-> 650 * PX, y |-> 500 * PX]]

\* the table with the rows of tiers 3 and 4 exchanged
LEVEL_CONFIGS_TiersExchanged ==
  << LevelConfig(2, 200, 30, 40, 40, 50, 470, FALSE),
     LevelConfig(3, 180, 35, 50, 45, 60, 450, FALSE),
     LevelConfig(5, 140, 45, 65, 55, 75, 410, FALSE),
     LevelConfig(4, 160, 40, 60, 50, 70, 430, FALSE),
     LevelConfig(6, 120, 50, 70, 60, 80, 390, FALSE),
     LevelConfig(7, 100, 55, 75, 65, 85, 370, TRUE) >>

LEVEL_CONFIGS ==
  << LevelConfig(2, 200, 30, 40, 40, 50, 470, FALSE),
     LevelConfig(3, 180, 35, 50, 45, 60, 450, FALSE),
     LevelConfig(4, 160, 40, 60, 50, 70, 430, FALSE),
     LevelConfig(5, 140, 45, 65, 55, 75, 410, FALSE),
     LevelConfig(6, 120, 50, 70, 60, 80, 390, FALSE),
     LevelConfig(7, 100, 55, 75, 65, 85, 370, TRUE) >>

getLevelConfig(level) == LEVEL_CONFIGS[Max(1, Min(MAX_LEVEL, level))]

STAGE_NAMES == << "titanic-approach", "collision", "iceberg-split", "ghost-sink" >>
STAGE_DURATIONS == << 2 * TicksPerSecond, TicksPerSecond \div 2, TicksPerSecond, 2 * TicksPerSecond >>

GameStatus == {"playing", "transitioning", "won", "lost", "timeout-animating", "timeout-gameover"}

(***************************************************************************)
(* GhostCharacter                                                          *)
(***************************************************************************)
\* the distance covered at speed v (length units per second) in dt
Travel(v, dt) == (v * dt) \div TicksPerSecond

\* new GhostCharacter(x, y, width, height, ...)
Ghost(x, y, width, height) ==
  [x |-> x, y |-> y, width |-> width, height |-> height,
   velocityY |-> 0, isJumping |-> FALSE, isOnGround |-> TRUE]

\* the engine's character
GhostCharacter(x, y) == Ghost(x, y, CHARACTER_WIDTH, CHARACTER_HEIGHT)

move(c, direction, dt) ==
  IF direction = "left" THEN [c EXCEPT !.x = c.x - Travel(HORIZONTAL_SPEED, dt)]
  ELSE IF direction = "right" THEN [c EXCEPT !.x = c.x + Travel(HORIZONTAL_SPEED, dt)]
  ELSE c

\* jump that leaves the character flagged as on the ground
jump_StaysGrounded(c) ==
  IF c.isOnGround /\ ~c.isJumping
  THEN [c EXCEPT !.velocityY = JUMP_STRENGTH, !.isJumping = TRUE]
  ELSE c

\* jump that asks only whether the character is already jumping upwards
jump_FromTheAir(c) ==
  IF c.velocityY >= 0
  THEN [c EXCEPT !.velocityY = JUMP_STRENGTH, !.isJumping = TRUE, !.isOnGround = FALSE]
  ELSE c

jump(c) ==
  IF c.isOnGround /\ ~c.isJumping
  THEN [c EXCEPT !.velocityY = JUMP_STRENGTH, !.isJumping = TRUE, !.isOnGround = FALSE]
  ELSE c

\* applyGravity that does not ask whether the character is airborne
applyGravity_OnGroundToo(c, dt) ==
  [c EXCEPT !.velocityY = Min(c.velocityY + Travel(GRAVITY, dt), TERMINAL_VELOCITY)]

applyGravity(c, dt) ==
  IF c.isJumping
  THEN [c EXCEPT !.velocityY = Min(c.velocityY + Travel(GRAVITY, dt), TERMINAL_VELOCITY)]
  ELSE c

\* land without stopping the vertical movement
land_KeepsVelocity(c) == [c EXCEPT !.isJumping = FALSE, !.isOnGround = TRUE]

land(c) == [c EXCEPT !.velocityY = 0, !.isJumping = FALSE, !.isOnGround = TRUE]

updatePhysics(c, dt) ==
  LET g == applyGravity(c, dt)
  IN [g EXCEPT !.y = g.y + Travel(g.velocityY, dt)]

(***************************************************************************)
(* Rectangles: Door.checkOverlap, Chalice.checkCollision,                  *)
(* Obstacle.checkCollision                                                 *)
(***************************************************************************)
\* strict AABB intersection of the character with a rectangle
RectOverlap(c, r) ==
  /\ c.x < r.x + r.width
  /\ c.x + c.width > r.x
  /\ c.y < r.y + r.height
  /\ c.y + c.height > r.y

NoDoor == [present |-> FALSE, x |-> 0, y |-> 0, width |-> DOOR_WIDTH, height |-> DOOR_HEIGHT, isActive |-> TRUE]
Door(x, y) == [present |-> TRUE, x |-> x, y |-> y, width |-> DOOR_WIDTH, height |-> DOOR_HEIGHT, isActive |-> TRUE]

NoChalice == [present |-> FALSE, x |-> 0, y |-> 0, width |-> CHALICE_WIDTH, height |-> CHALICE_HEIGHT, collected |-> FALSE]
Chalice(x, y) == [present |-> TRUE, x |-> x, y |-> y, width |-> CHALICE_WIDTH, height |-> CHALICE_HEIGHT, collected |-> FALSE]

\* x and width are numbers computed in floating point: the fields x and
\* width hold their length units, xUlp and widthUlp what they carry beyond
\* them, in units of FLOAT_UNIT (see the floating-point section below)
Obstacle(x, y, width, height) ==
  [x |-> x.h, y |-> y, width |-> width.h, height |-> height,
   xUlp |-> x.u, widthUlp |-> width.u]

checkDoorOverlap(c, d) == d.isActive /\ RectOverlap(c, d)

checkChaliceCollision(c, ch) == ~ch.collected /\ RectOverlap(c, ch)

\* checkCollision with the vertical sides tested before the horizontal ones
checkCollision_TopFirst(o, c) ==
  IF ~RectOverlap(c, o) THEN [collided |-> FALSE, side |-> "none"]
  ELSE
    LET overlapLeft == (c.x + c.width) - o.x
        overlapRight == (o.x + o.width) - c.x
        overlapTop == (c.y + c.height) - o.y
        overlapBottom == (o.y + o.height) - c.y
        minOverlap == Min(Min(overlapLeft, overlapRight), Min(overlapTop, overlapBottom))
    IN [collided |-> TRUE,
        side |-> IF minOverlap = overlapTop THEN "top"
                 ELSE IF minOverlap = overlapBottom THEN "bottom"
                 ELSE IF minOverlap = overlapLeft THEN "left"
                 ELSE "right"]

\* Obstacle.checkCollision: the side of minimum penetration, first match in
\* the order left, right, top, bottom
checkCollision(o, c) ==
  IF ~RectOverlap(c, o) THEN [collided |-> FALSE, side |-> "none"]
  ELSE
    LET overlapLeft == (c.x + c.width) - o.x
        overlapRight == (o.x + o.width) - c.x
        overlapTop == (c.y + c.height) - o.y
        overlapBottom == (o.y + o.height) - c.y
        minOverlap == Min(Min(overlapLeft, overlapRight), Min(overlapTop, overlapBottom))
    IN [collided |-> TRUE,
        side |-> IF minOverlap = overlapLeft THEN "left"
                 ELSE IF minOverlap = overlapRight THEN "right"
                 ELSE IF minOverlap = overlapTop THEN "top"
                 ELSE "bottom"]

(***************************************************************************)
(* PhysicsSystem                                                           *)
(***************************************************************************)
\* a ground plane that stops nothing
checkGroundCollision_NoGround(c, groundY) == c

checkGroundCollision(c, groundY) ==
  IF c.y + c.height >= groundY /\ c.velocityY >= 0
  THEN land([c EXCEPT !.y = groundY - c.height])
  ELSE c

\* resolveCollision with a landing on the bottom side as on the top side
resolveCollision_BottomLands(c, o, side) ==
  CASE side = "top" -> land([c EXCEPT !.y = o.y - c.height])
    [] side = "bottom" -> land([c EXCEPT !.y = o.y + o.height])
    [] side = "left" -> [c EXCEPT !.x = o.x - c.width]
    [] side = "right" -> [c EXCEPT !.x = o.x + o.width]
    [] OTHER -> c

resolveCollision(c, o, side) ==
  CASE side = "top" -> land([c EXCEPT !.y = o.y - c.height])
    [] side = "bottom" -> [c EXCEPT !.y = o.y + o.height, !.velocityY = 0]
    [] side = "left" -> [c EXCEPT !.x = o.x - c.width]
    [] side = "right" -> [c EXCEPT !.x = o.x + o.width]
    [] OTHER -> c

\* one iteration that detects the collision and does not resolve it
resolveOne_DetectOnly(r, o, collision) ==
  IF collision.collided
  THEN [character |-> r.character,
        onObstacleTop |-> r.onObstacleTop \/ collision.side = "top"]
  ELSE r

\* the first loop of checkObstacleCollisions over obstacles i..Len(obs):
\* the character after the loop and whether a top collision was resolved;
\* resolveOne is one iteration on obstacle o, given its collision result
resolveOne(r, o, collision) ==
  IF collision.collided
  THEN [character |-> resolveCollision(r.character, o, collision.side),
        onObstacleTop |-> r.onObstacleTop \/ collision.side = "top"]
  ELSE r

RECURSIVE ResolveFrom(_, _, _)
ResolveFrom(r, obs, i) ==
  IF i > Len(obs) THEN r
  ELSE ResolveFrom(resolveOne(r, obs[i], checkCollision(obs[i], r.character)), obs, i + 1)

ResolveLoop(c, obs, i, onTop) == ResolveFrom([character |-> c, onObstacleTop |-> onTop], obs, i)

\* the second loop: is the character's centre over some obstacle's top
stillOnObstacle(c, obs) ==
  \E i \in 1..Len(obs) :
     /\ 2 * c.x + c.width >= 2 * obs[i].x
     /\ 2 * c.x + c.width <= 2 * (obs[i].x + obs[i].width)
     /\ Abs((c.y + c.height) - obs[i].y) < 5 * PX

\* the walked-off-an-obstacle check that takes the character off the
\* ground without marking it as jumping
edgeWalk_OnlyLeavesGround(r, obs) ==
  IF /\ ~r.onObstacleTop
     /\ r.character.isOnGround
     /\ Len(obs) > 0
     /\ ~stillOnObstacle(r.character, obs)
     /\ ~(r.character.y + r.character.height >= GROUND_Y - 5 * PX)
  THEN [r.character EXCEPT !.isOnGround = FALSE]
  ELSE r.character

\* the walked-off-an-obstacle check without the test of the ground plane
edgeWalk_NoGroundPlane(r, obs) ==
  IF /\ ~r.onObstacleTop
     /\ r.character.isOnGround
     /\ Len(obs) > 0
     /\ ~stillOnObstacle(r.character, obs)
  THEN [r.character EXCEPT !.isOnGround = FALSE, !.isJumping = TRUE]
  ELSE r.character

\* the walked-off-an-obstacle check on the result r of the first loop
edgeWalk(r, obs) ==
  IF /\ ~r.onObstacleTop
     /\ r.character.isOnGround
     /\ Len(obs) > 0
     /\ ~stillOnObstacle(r.character, obs)
     /\ ~(r.character.y + r.character.height >= GROUND_Y - 5 * PX)
  THEN [r.character EXCEPT !.isOnGround = FALSE, !.isJumping = TRUE]
  ELSE r.character

checkObstacleCollisions(c, obs) == edgeWalk(ResolveLoop(c, obs, 1, FALSE), obs)

(***************************************************************************)
(* LevelManager                                                            *)
(***************************************************************************)
\* IEEE-754 double arithmetic of generateObstacles.  A number is a record
\* [h, u] of value h length units plus u units of 2^-48 pixel (the spacing
\* of the doubles in [16, 32)); u stays far below one length unit.  The sum
\* and the difference of two numbers are the exact result rounded to the
\* double nearest to it, ties to the even significand.
Float(h, u) == [h |-> h, u |-> u]

\* the spacing of the doubles around a magnitude of px pixels, px >= 16
RECURSIVE Ulp(_)
Ulp(px) == IF px < 32 THEN 1 ELSE 2 * Ulp(px \div 2)

\* the spacing of the doubles in the binade of the exact result h, u
Granularity(h, u) == IF u < 0 THEN Ulp((h - 1) \div PX) ELSE Ulp(h \div PX)

\* u rounded to the nearest multiple of g, a tie to the even multiple
RoundToEven(u, g) ==
  IF 2 * (u % g) < g THEN (u \div g) * g
  ELSE IF 2 * (u % g) > g THEN ((u \div g) + 1) * g
  ELSE IF (u \div g) % 2 = 0 THEN (u \div g) * g
  ELSE ((u \div g) + 1) * g

fadd(a, b) == Float(a.h + b.h, RoundToEven(a.u + b.u, Granularity(a.h + b.h, a.u + b.u)))
fsub(a, b) == Float(a.h - b.h, RoundToEven(a.u - b.u, Granularity(a.h - b.h, a.u - b.u)))

\* a draw r = n / DrawDen of Math.random() taken in the range <<lo, hi>>
DrawIn(range, n) == range[1] + (n * (range[2] - range[1])) \div DrawDen

\* the width of a candidate: the draw of its length units, and draw.u
\* doubles further up (Math.random() returns n / DrawDen plus a few 2^-53)
ObstacleWidth(config, draw) ==
  Float(DrawIn(config.obstacleWidthRange, draw.w),
        draw.u * Granularity(DrawIn(config.obstacleWidthRange, draw.w), 0))

MaxJumpHeight == (Abs(JUMP_STRENGTH) * Abs(JUMP_STRENGTH)) \div (2 * GRAVITY)

\* the spacing generateObstacles uses between obstacles
ObstacleSpacing(config) ==
  LET startX == 100 * PX
      endX == config.doorPosition.x - 100 * PX
      availableWidth == endX - startX
      totalObstacleWidth ==
        (config.obstacleCount * (config.obstacleWidthRange[1] + config.obstacleWidthRange[2])) \div 2
      totalSpacing == availableWidth - totalObstacleWidth
  IN Max(config.obstacleMinSpacing, totalSpacing \div (config.obstacleCount + 1))

\* the jumpability test against half of the maximum jump height
pushIfJumpable_HalfJump(acc, currentX, width, height) ==
  IF 10 * height <= 5 * MaxJumpHeight
  THEN Append(acc, Obstacle(currentX, GROUND_Y - height, width, height))
  ELSE acc

\* one iteration: the obstacle list after a candidate of the drawn size
pushIfJumpable(acc, currentX, width, height) ==
  IF 10 * height <= 8 * MaxJumpHeight
  THEN Append(acc, Obstacle(currentX, GROUND_Y - height, width, height))
  ELSE acc

\* the loop of generateObstacles from iteration i on; draws[i] holds the
\* Math.random() numerators of iteration i
RECURSIVE GenerateLoop(_, _, _, _, _)
GenerateLoop(config, draws, i, currentX, acc) ==
  IF i > config.obstacleCount THEN acc
  ELSE GenerateLoop(config, draws, i + 1,
                    fadd(currentX, fadd(ObstacleWidth(config, draws[i]),
                                        Float(ObstacleSpacing(config), 0))),
                    pushIfJumpable(acc, currentX,
                                   ObstacleWidth(config, draws[i]),
                                   DrawIn(config.obstacleHeightRange, draws[i].h)))

generateObstacles(level, draws) ==
  GenerateLoop(getLevelConfig(level), draws, 1,
               fadd(Float(100 * PX, 0), Float(ObstacleSpacing(getLevelConfig(level)), 0)),
               << >>)

\* generateDoor with the final level tested as level > 6
generateDoor_DoorOnFinalLevel(level) ==
  IF level > 6 THEN NoDoor
  ELSE Door(getLevelConfig(level).doorPosition.x, GROUND_Y - DOOR_HEIGHT)

generateDoor(level) ==
  IF level >= 6 THEN NoDoor
  ELSE Door(getLevelConfig(level).doorPosition.x, GROUND_Y - DOOR_HEIGHT)

generateChalice(level) ==
  IF level # 6 THEN NoChalice
  ELSE IF getLevelConfig(level).hasChalicePosition
       THEN Chalice(getLevelConfig(level).chalicePosition.x, getLevelConfig(level).chalicePosition.y)
       ELSE NoChalice

\* the draws of one level of the engine: every Math.random() call of one
\* generateObstacles run returns the same value
LevelDraws(level) ==
  { [i \in 1..getLevelConfig(level).obstacleCount |-> [w |-> n, h |-> n, u |-> 0]] :
      n \in DrawNums }

(***************************************************************************)
(* TimeoutManager                                                          *)
(***************************************************************************)
TimeoutManager(duration) ==
  [timeRemaining |-> duration, isActive |-> FALSE, hasTriggered |-> FALSE]

timeoutStart(tm) == [tm EXCEPT !.isActive = TRUE, !.hasTriggered = FALSE]
timeoutStop(tm) == [tm EXCEPT !.isActive = FALSE]
timeoutReset(tm) ==
  [tm EXCEPT !.timeRemaining = TIMEOUT_DURATION, !.isActive = FALSE, !.hasTriggered = FALSE]

\* timeoutLatch deactivating the timer without latching hasTriggered
timeoutLatch_NoLatch(tm) ==
  IF tm.timeRemaining <= 0 /\ ~tm.hasTriggered
  THEN [tm |-> [tm EXCEPT !.isActive = FALSE], timedOut |-> TRUE]
  ELSE [tm |-> tm, timedOut |-> FALSE]

\* the latch of update, once timeRemaining has been decremented and clamped
timeoutLatch(tm) ==
  IF tm.timeRemaining <= 0 /\ ~tm.hasTriggered
  THEN [tm |-> [tm EXCEPT !.hasTriggered = TRUE, !.isActive = FALSE], timedOut |-> TRUE]
  ELSE [tm |-> tm, timedOut |-> FALSE]

\* TimeoutManager.update: the manager afterwards and the returned flag
timeoutUpdate(tm, dt) ==
  IF ~tm.isActive \/ tm.hasTriggered THEN [tm |-> tm, timedOut |-> FALSE]
  ELSE timeoutLatch([tm EXCEPT !.timeRemaining = Max(tm.timeRemaining - dt, 0)])

(***************************************************************************)
(* TitanicAnimationSystem (the stage cursor; currentStageIndex is 0-based  *)
(* as in the code, elapsed[i + 1] is the elapsed time of stage i)          *)
(***************************************************************************)
TITANIC_START_X == -200 * PX

TitanicAnimationSystem ==
  [elapsed |-> << 0, 0, 0, 0 >>, currentStageIndex |-> -1, isComplete |-> FALSE,
   titanicX |-> TITANIC_START_X, icebergSplitOffset |-> 0, ghostSinkY |-> 0]

animationStart(a) ==
  [elapsed |-> << 0, 0, 0, 0 >>, currentStageIndex |-> 0, isComplete |-> FALSE,
   titanicX |-> TITANIC_START_X, icebergSplitOffset |-> 0, ghostSinkY |-> 0]

animationReset(a) ==
  [elapsed |-> << 0, 0, 0, 0 >>, currentStageIndex |-> -1, isComplete |-> FALSE,
   titanicX |-> TITANIC_START_X, icebergSplitOffset |-> 0, ghostSinkY |-> 0]

\* scale * Math.min(elapsed / duration, 1)
Progress(scale, elapsed, duration) == (scale * Min(elapsed, duration)) \div duration

\* the switch of update: the offsets derived from the current stage's
\* progress (the shake term of the collision stage, 5 sin(10 pi progress),
\* is 0 at every whole tick)
animationOffsets(a) ==
  CASE a.currentStageIndex = 0 ->
         [a EXCEPT !.titanicX =
            TITANIC_START_X
              + Progress(CANVAS_WIDTH \div 2 - 100 * PX, a.elapsed[1], STAGE_DURATIONS[1])]
    [] a.currentStageIndex = 1 ->
         [a EXCEPT !.titanicX =
            CANVAS_WIDTH \div 2 - 100 * PX + Progress(20 * PX, a.elapsed[2], STAGE_DURATIONS[2])]
    [] a.currentStageIndex = 2 ->
         [a EXCEPT !.icebergSplitOffset = Progress(50 * PX, a.elapsed[3], STAGE_DURATIONS[3])]
    [] a.currentStageIndex = 3 ->
         [a EXCEPT !.ghostSinkY = Progress(CANVAS_HEIGHT, a.elapsed[4], STAGE_DURATIONS[4])]
    [] OTHER -> a

\* animationAdvance completing as soon as the third stage is done
animationAdvance_EarlyComplete(a) ==
  IF a.elapsed[a.currentStageIndex + 1] >= STAGE_DURATIONS[a.currentStageIndex + 1]
  THEN [a EXCEPT !.currentStageIndex = a.currentStageIndex + 1,
                 !.isComplete = a.currentStageIndex + 1 >= Len(STAGE_DURATIONS) - 1]
  ELSE a

\* animationAdvance stepping over the next stage when the time accumulated
\* by the current one covers twice its duration
animationAdvance_SkipsStage(a) ==
  IF a.elapsed[a.currentStageIndex + 1] >= 2 * STAGE_DURATIONS[a.currentStageIndex + 1]
  THEN [a EXCEPT !.currentStageIndex = Min(a.currentStageIndex + 2, Len(STAGE_DURATIONS)),
                 !.isComplete = a.currentStageIndex + 2 >= Len(STAGE_DURATIONS)]
  ELSE IF a.elapsed[a.currentStageIndex + 1] >= STAGE_DURATIONS[a.currentStageIndex + 1]
  THEN [a EXCEPT !.currentStageIndex = a.currentStageIndex + 1,
                 !.isComplete = a.currentStageIndex + 1 >= Len(STAGE_DURATIONS)]
  ELSE a

\* the end of update: the cursor advances when the current stage is done
animationAdvance(a) ==
  IF a.elapsed[a.currentStageIndex + 1] >= STAGE_DURATIONS[a.currentStageIndex + 1]
  THEN [a EXCEPT !.currentStageIndex = a.currentStageIndex + 1,
                 !.isComplete = a.currentStageIndex + 1 >= Len(STAGE_DURATIONS)]
  ELSE a

\* animationUpdate without the early return of a complete animation
animationUpdate_NoEarlyReturn(a, dt) ==
  IF a.currentStageIndex < 0 THEN a
  ELSE IF a.isComplete THEN [a EXCEPT !.elapsed[Len(STAGE_DURATIONS)] = @ + dt]
  ELSE animationAdvance(animationOffsets([a EXCEPT !.elapsed[a.currentStageIndex + 1] = @ + dt]))

animationUpdate(a, dt) ==
  IF a.isComplete \/ a.currentStageIndex < 0 THEN a
  ELSE animationAdvance(animationOffsets([a EXCEPT !.elapsed[a.currentStageIndex + 1] = @ + dt]))

(***************************************************************************)
(* InputHandler                                                            *)
(***************************************************************************)
InputHandler ==
  [left |-> FALSE, right |-> FALSE, activeDirection |-> "none",
   enterPressed |-> FALSE, spacePressed |-> FALSE]

Keys == {"ArrowLeft", "ArrowRight", "Enter", " "}

\* handleKeyDown that takes every keydown of an arrow key as a new press
handleKeyDown_RepeatTakesOver(in, key) ==
  CASE key = "ArrowLeft" -> [in EXCEPT !.left = TRUE, !.activeDirection = "left"]
    [] key = "ArrowRight" -> [in EXCEPT !.right = TRUE, !.activeDirection = "right"]
    [] key = "Enter" -> [in EXCEPT !.enterPressed = TRUE]
    [] key = " " -> [in EXCEPT !.spacePressed = TRUE]
    [] OTHER -> in

handleKeyDown(in, key) ==
  CASE key = "ArrowLeft" ->
         IF ~in.left THEN [in EXCEPT !.left = TRUE, !.activeDirection = "left"] ELSE in
    [] key = "ArrowRight" ->
         IF ~in.right THEN [in EXCEPT !.right = TRUE, !.activeDirection = "right"] ELSE in
    [] key = "Enter" -> [in EXCEPT !.enterPressed = TRUE]
    [] key = " " -> [in EXCEPT !.spacePressed = TRUE]
    [] OTHER -> in

handleKeyUp(in, key) ==
  CASE key = "ArrowLeft" ->
         [in EXCEPT !.left = FALSE,
                    !.activeDirection =
                       IF in.activeDirection = "left"
                       THEN (IF in.right THEN "right" ELSE "none")
                       ELSE in.activeDirection]
    [] key = "ArrowRight" ->
         [in EXCEPT !.right = FALSE,
                    !.activeDirection =
                       IF in.activeDirection = "right"
                       THEN (IF in.left THEN "left" ELSE "none")
                       ELSE in.activeDirection]
    [] key = "Enter" -> [in EXCEPT !.enterPressed = FALSE]
    [] key = " " -> [in EXCEPT !.spacePressed = FALSE]
    [] OTHER -> in

consumeEnter(in) == [in EXCEPT !.enterPressed = FALSE]
consumeSpace(in) == [in EXCEPT !.spacePressed = FALSE]

(***************************************************************************)
(* GameEngine                                                              *)
(***************************************************************************)
VARIABLES
  gameStatus,      \* GameStatus
  unit,            \* the object exercised on its own by the class-level specifications
  isRunning,       \* the game loop is scheduled and the key listeners are attached
  currentLevel,    \* 0 = starting area, 1..6 = game levels
  character,       \* GhostCharacter
  obstacles,       \* Obstacle[]
  door,            \* Door | null
  chalice,         \* Chalice | null
  timeoutManager,  \* TimeoutManager
  titanic,         \* TitanicAnimationSystem
  input,           \* InputHandler
  isFalling,
  fallingTimer,
  pending,         \* the setTimeout callbacks of transitionToLevel not yet run, oldest first
  updatePath       \* the branch of update() the last step ran, "none" if the step was no update

vars == << unit, gameStatus, isRunning, currentLevel, character, obstacles, door, chalice,
           timeoutManager, titanic, input, isFalling, fallingTimer, pending, updatePath >>

\* the engine's fields as one record, the value the methods below transform
World ==
  [gameStatus |-> gameStatus, currentLevel |-> currentLevel, character |-> character,
   obstacles |-> obstacles, door |-> door, chalice |-> chalice,
   timeoutManager |-> timeoutManager, titanic |-> titanic, input |-> input,
   isFalling |-> isFalling, fallingTimer |-> fallingTimer, pending |-> pending,
   updatePath |-> updatePath]

SetWorld(n) ==
  /\ gameStatus' = n.gameStatus
  /\ currentLevel' = n.currentLevel
  /\ character' = n.character
  /\ obstacles' = n.obstacles
  /\ door' = n.door
  /\ chalice' = n.chalice
  /\ timeoutManager' = n.timeoutManager
  /\ titanic' = n.titanic
  /\ input' = n.input
  /\ isFalling' = n.isFalling
  /\ fallingTimer' = n.fallingTimer
  /\ pending' = n.pending
  /\ updatePath' = n.updatePath

LOBBY_START_X == CANVAS_WIDTH \div 2 - CHARACTER_WIDTH \div 2
LOBBY_START_Y == WATER_LEVEL - CHARACTER_HEIGHT
LEVEL_START_X == 50 * PX
LEVEL_START_Y == GROUND_Y - CHARACTER_HEIGHT

\* initializeLevel(level); offset is the lobby door's random offset and draws
\* the Math.random() draws of generateObstacles
initializeLevel(w, level, offset, draws) ==
  IF level = 0
  THEN [w EXCEPT !.currentLevel = level,
                 !.obstacles = << >>,
                 !.chalice = NoChalice,
                 !.door = Door(CANVAS_WIDTH \div 2 + offset * PX, WATER_LEVEL - 80 * PX),
                 !.character = [w.character EXCEPT !.x = LOBBY_START_X, !.y = LOBBY_START_Y,
                                                   !.velocityY = 0, !.isJumping = FALSE,
                                                   !.isOnGround = TRUE],
                 !.timeoutManager = timeoutStart(w.timeoutManager)]
  ELSE [w EXCEPT !.currentLevel = level,
                 !.obstacles = generateObstacles(level, draws),
                 !.door = generateDoor(level),
                 !.chalice = generateChalice(level),
                 !.character = [w.character EXCEPT !.x = LEVEL_START_X, !.y = LEVEL_START_Y,
                                                   !.velocityY = 0, !.isJumping = FALSE,
                                                   !.isOnGround = TRUE]]

\* transitionTo leaving the countdown running
transitionTo_TimerNotStopped(w, nextLevel) ==
  [w EXCEPT !.gameStatus = "transitioning", !.pending = Append(w.pending, nextLevel)]

\* transitionTo leaving the status as it is
transitionTo_StaysPlaying(w, nextLevel) ==
  [w EXCEPT !.timeoutManager = IF w.currentLevel = 0 /\ nextLevel > 0
                               THEN timeoutStop(w.timeoutManager)
                               ELSE w.timeoutManager,
            !.pending = Append(w.pending, nextLevel)]

\* transitionToLevel(level): the callback is left pending
transitionTo(w, nextLevel) ==
  [w EXCEPT !.timeoutManager = IF w.currentLevel = 0 /\ nextLevel > 0
                               THEN timeoutStop(w.timeoutManager)
                               ELSE w.timeoutManager,
            !.gameStatus = "transitioning",
            !.pending = Append(w.pending, nextLevel)]

\* transitionToLevel that goes one tier further than asked
transitionToLevel_SkipsATier(w, level) == transitionTo(w, Max(1, Min(6, level + 1)))

transitionToLevel(w, level) == transitionTo(w, Max(1, Min(6, level)))

triggerWin(w) == [w EXCEPT !.gameStatus = "won"]

triggerLose(w) == [w EXCEPT !.gameStatus = "lost"]

handleTimeout(w) ==
  [w EXCEPT !.gameStatus = "timeout-animating", !.titanic = animationStart(w.titanic)]

\* the last statement of restartFromTimeout
restartTimer(w) == [w EXCEPT !.timeoutManager = timeoutStart(w.timeoutManager)]

\* restartFromTimeout without the timeoutManager.reset() call
restartFromTimeout_NoTimerReset(w, offset) ==
  restartTimer(initializeLevel([w EXCEPT !.gameStatus = "playing",
                                         !.titanic = animationReset(w.titanic)],
                               0, offset, << >>))

restartFromTimeout(w, offset) ==
  restartTimer(initializeLevel([w EXCEPT !.gameStatus = "playing",
                                         !.timeoutManager = timeoutReset(w.timeoutManager),
                                         !.titanic = animationReset(w.titanic)],
                               0, offset, << >>))

\* the door interaction shared by the lobby and the levels
doorInteraction(w, level) ==
  IF w.door.present /\ checkDoorOverlap(w.character, w.door) /\ w.input.enterPressed
  THEN transitionToLevel([w EXCEPT !.input = consumeEnter(w.input)], level)
  ELSE w

startFalling(w) == [w EXCEPT !.isFalling = TRUE, !.fallingTimer = 0]

\* checkCollisions(): the obstacle collisions
collideObstacles(w) ==
  [w EXCEPT !.character = checkObstacleCollisions(w.character, w.obstacles)]

\* collectChalice forgetting to mark the chalice collected
collectChalice_NotMarked(w) ==
  IF w.chalice.present /\ ~w.chalice.collected /\ checkChaliceCollision(w.character, w.chalice)
  THEN triggerWin(w)
  ELSE w

\* checkCollisions(): the chalice collection
collectChalice(w) ==
  IF w.chalice.present /\ ~w.chalice.collected /\ checkChaliceCollision(w.character, w.chalice)
  THEN triggerWin([w EXCEPT !.chalice.collected = TRUE])
  ELSE w

\* checkCollisions(): the character left the platform horizontally
checkPlatformEdges(w) ==
  IF (w.character.x < 0 \/ w.character.x + w.character.width > PLATFORM_WIDTH) /\ ~w.isFalling
  THEN startFalling(w)
  ELSE w

\* checkCollisions(): the character fell below the ground
checkBelowGround(w) ==
  IF w.character.y > GROUND_Y + 100 * PX /\ ~w.isFalling THEN startFalling(w) ELSE w

\* checkCollisions()
checkCollisions(w) ==
  checkBelowGround(
    checkPlatformEdges(
      collectChalice(
        doorInteraction(collideObstacles(w), w.currentLevel + 1))))

\* fallingLimit losing as soon as the timer reaches 2 seconds
fallingLimit_AtLimit(w) ==
  IF w.fallingTimer >= FALLING_LIMIT
  THEN triggerLose([w EXCEPT !.isFalling = FALSE])
  ELSE w

\* update(): the end of the falling branch
fallingLimit(w) ==
  IF w.fallingTimer > FALLING_LIMIT
  THEN triggerLose([w EXCEPT !.isFalling = FALSE])
  ELSE w

\* the falling branch with the countdown still running
updateFalling_CountdownRuns(w, dt) ==
  fallingLimit([w EXCEPT !.fallingTimer = w.fallingTimer + dt,
                         !.character.y = w.character.y + Travel(SINK_SPEED, dt),
                         !.timeoutManager = timeoutUpdate(w.timeoutManager, dt).tm,
                         !.updatePath = "falling"])

\* update(): the falling branch
updateFalling(w, dt) ==
  fallingLimit([w EXCEPT !.fallingTimer = w.fallingTimer + dt,
                         !.character.y = w.character.y + Travel(SINK_SPEED, dt),
                         !.updatePath = "falling"])

\* update(), starting area: the character left the top of the iceberg
checkLobbyEdges(w) ==
  IF (w.character.x < CANVAS_WIDTH \div 4
        \/ w.character.x + w.character.width > (3 * CANVAS_WIDTH) \div 4) /\ ~w.isFalling
  THEN startFalling(w)
  ELSE w

\* update(), starting area: from the result t of timeoutManager.update on
lobbyAfterTimer(w, t) ==
  IF t.timedOut
  THEN handleTimeout([w EXCEPT !.timeoutManager = t.tm])
  ELSE doorInteraction(checkLobbyEdges([w EXCEPT !.timeoutManager = t.tm]), 1)

\* update(): playing in the starting area
updateLobby(w, dt) ==
  lobbyAfterTimer([w EXCEPT !.character = move(w.character, w.input.activeDirection, dt),
                            !.updatePath = "lobby"],
                  timeoutUpdate(w.timeoutManager, dt))

\* update(), game level: the jump
handleJump(w) ==
  IF w.input.spacePressed /\ w.character.isOnGround
  THEN [w EXCEPT !.character = jump(w.character), !.input = consumeSpace(w.input)]
  ELSE w

\* update(), game level: movement, physics and the ground collision
movePhysicsGround(w, dt) ==
  [w EXCEPT !.character =
               checkGroundCollision(
                 updatePhysics(move(w.character, w.input.activeDirection, dt), dt),
                 GROUND_Y),
            !.updatePath = "level"]

\* update(): playing on a game level
updateLevel(w, dt) == checkCollisions(movePhysicsGround(handleJump(w), dt))

\* update(), timeout animation: the completion test
animationDone(w) ==
  IF w.titanic.isComplete THEN [w EXCEPT !.gameStatus = "timeout-gameover"] ELSE w

\* updateAnimating also moving the character in the active direction
updateAnimating_Moves(w, dt) ==
  animationDone([w EXCEPT !.titanic = animationUpdate(w.titanic, dt),
                          !.character = move(w.character, w.input.activeDirection, dt),
                          !.updatePath = "timeout-animating"])

\* update(): the timeout animation
updateAnimating(w, dt) ==
  animationDone([w EXCEPT !.titanic = animationUpdate(w.titanic, dt),
                          !.updatePath = "timeout-animating"])

\* update(): the timeout game over screen
updateGameOver(w, offset) ==
  IF w.input.enterPressed
  THEN restartFromTimeout([w EXCEPT !.input = consumeEnter(w.input),
                                    !.updatePath = "timeout-gameover"], offset)
  ELSE [w EXCEPT !.updatePath = "timeout-gameover"]

\* update dispatching on the tier without testing the status
update_NoStatusTest(w, dt, offset) ==
  IF w.isFalling THEN updateFalling(w, dt)
  ELSE IF w.gameStatus \in {"playing", "transitioning", "lost"}
       THEN (IF w.currentLevel = 0 THEN updateLobby(w, dt) ELSE updateLevel(w, dt))
  ELSE IF w.gameStatus = "won" THEN [w EXCEPT !.updatePath = "won"]
  ELSE IF w.gameStatus = "timeout-animating" THEN updateAnimating(w, dt)
  ELSE IF w.gameStatus = "timeout-gameover" THEN updateGameOver(w, offset)
  ELSE [w EXCEPT !.updatePath = "idle"]

\* update(deltaTime); offset is the random door offset a restart draws
update(w, dt, offset) ==
  IF w.isFalling THEN updateFalling(w, dt)
  ELSE IF w.gameStatus = "playing"
       THEN (IF w.currentLevel = 0 THEN updateLobby(w, dt) ELSE updateLevel(w, dt))
  ELSE IF w.gameStatus = "won" THEN [w EXCEPT !.updatePath = "won"]
  ELSE IF w.gameStatus = "timeout-animating" THEN updateAnimating(w, dt)
  ELSE IF w.gameStatus = "timeout-gameover" THEN updateGameOver(w, offset)
  ELSE [w EXCEPT !.updatePath = "idle"]

\* the body of the setTimeout callback of transitionToLevel
transitionCallback(w, offset, draws) ==
  [initializeLevel([w EXCEPT !.pending = Tail(w.pending)], Head(w.pending), offset, draws)
     EXCEPT !.gameStatus = "playing", !.updatePath = "none"]

(***************************************************************************)
(* The state after the constructor, and the steps                          *)
(***************************************************************************)
Constructed(offset) ==
  initializeLevel(
    [gameStatus |-> "playing", currentLevel |-> 0,
     character |-> GhostCharacter(LOBBY_START_X, WATER_LEVEL \div 2 - CHARACTER_HEIGHT),
     obstacles |-> << >>, door |-> NoDoor, chalice |-> NoChalice,
     timeoutManager |-> TimeoutManager(TIMEOUT_DURATION),
     titanic |-> TitanicAnimationSystem, input |-> InputHandler,
     isFalling |-> FALSE, fallingTimer |-> 0, pending |-> << >>, updatePath |-> "none"],
    0, offset, << >>)

\* the engine's fields are those of w
IsWorld(w) ==
  /\ gameStatus = w.gameStatus
  /\ currentLevel = w.currentLevel
  /\ character = w.character
  /\ obstacles = w.obstacles
  /\ door = w.door
  /\ chalice = w.chalice
  /\ timeoutManager = w.timeoutManager
  /\ titanic = w.titanic
  /\ input = w.input
  /\ isFalling = w.isFalling
  /\ fallingTimer = w.fallingTimer
  /\ pending = w.pending
  /\ updatePath = w.updatePath

\* no object is exercised on its own while the engine runs
NoUnit == [kind |-> "engine"]

Init ==
  /\ unit = NoUnit
  /\ isRunning = FALSE
  /\ \E offset \in DoorOffsets : IsWorld(Constructed(offset))

\* start(): attaches the listeners and runs the first frame, whose
\* deltaTime is 0
Start ==
  /\ ~isRunning
  /\ isRunning' = TRUE
  /\ UNCHANGED unit
  /\ \E offset \in DoorOffsets : SetWorld(update(World, 0, offset))

\* stop(): detaches the listeners and cancels the next frame
Stop ==
  /\ isRunning
  /\ isRunning' = FALSE
  /\ UNCHANGED unit
  /\ SetWorld([World EXCEPT !.updatePath = "none"])

\* a frame of the game loop
Tick ==
  /\ isRunning
  /\ \E dt \in DtSet, offset \in DoorOffsets : SetWorld(update(World, dt, offset))
  /\ UNCHANGED << isRunning, unit >>

KeyDown ==
  /\ isRunning
  /\ \E key \in Keys :
        SetWorld([World EXCEPT !.input = handleKeyDown(input, key), !.updatePath = "none"])
  /\ UNCHANGED << isRunning, unit >>

KeyUp ==
  /\ isRunning
  /\ \E key \in Keys :
        SetWorld([World EXCEPT !.input = handleKeyUp(input, key), !.updatePath = "none"])
  /\ UNCHANGED << isRunning, unit >>

\* the oldest pending transition callback runs
Callback ==
  /\ pending # << >>
  /\ \E draws \in LevelDraws(Head(pending)) : SetWorld(transitionCallback(World, 0, draws))
  /\ UNCHANGED << isRunning, unit >>

Next == Start \/ Stop \/ Tick \/ KeyDown \/ KeyUp \/ Callback

Spec == Init /\ [][Next]_vars

\* a frame whose deltaTime is positive: every frame after the first, the
\* timestamps of requestAnimationFrame being increasing
TickPositive ==
  /\ isRunning
  /\ \E dt \in DtSet \ {0}, offset \in DoorOffsets : SetWorld(update(World, dt, offset))
  /\ UNCHANGED << isRunning, unit >>

(***************************************************************************)
(* Class-level specifications: one object is driven through its public     *)
(* methods while the engine stays as constructed                           *)
(***************************************************************************)
engineVars ==
  << gameStatus, isRunning, currentLevel, character, obstacles, door, chalice,
     timeoutManager, titanic, input, isFalling, fallingTimer, pending, updatePath >>

EngineIdle == isRunning = FALSE /\ IsWorld(Constructed(0))

\* the deltaTime values of the update calls, in ticks
TimerDts == {0, 1, FrameDt}

\* tm: the TimeoutManager; call, dt, returned: the last call, its argument
\* and what it returned; fired: update has returned true since the
\* construction or the last reset()
TimerUnit(tm, call, dt, returned, fired) ==
  [kind |-> "TimeoutManager", tm |-> tm, call |-> call, dt |-> dt,
   returned |-> returned, fired |-> fired]

TimerInit ==
  /\ EngineIdle
  /\ unit = TimerUnit(TimeoutManager(TIMEOUT_DURATION), "new", 0, FALSE, FALSE)

TimerStart ==
  /\ unit' = TimerUnit(timeoutStart(unit.tm), "start", 0, FALSE, unit.fired)
  /\ UNCHANGED engineVars

TimerStop ==
  /\ unit' = TimerUnit(timeoutStop(unit.tm), "stop", 0, FALSE, unit.fired)
  /\ UNCHANGED engineVars

TimerReset ==
  /\ unit' = TimerUnit(timeoutReset(unit.tm), "reset", 0, FALSE, FALSE)
  /\ UNCHANGED engineVars

TimerUpdate ==
  /\ \E dt \in TimerDts :
        unit' = TimerUnit(timeoutUpdate(unit.tm, dt).tm, "update", dt,
                          timeoutUpdate(unit.tm, dt).timedOut,
                          unit.fired \/ timeoutUpdate(unit.tm, dt).timedOut)
  /\ UNCHANGED engineVars

TimerNext == TimerStart \/ TimerStop \/ TimerReset \/ TimerUpdate

TimerSpec == TimerInit /\ [][TimerNext]_vars

\* the deltaTime values of the animation's update calls, in ticks: one
\* shorter than every stage, one as long as the shortest stage, one longer
\* than every stage
AnimationDts == {1, FrameDt, 3 * TicksPerSecond}

\* a: the TitanicAnimationSystem; call, dt: the last call and its argument;
\* wasComplete: isAnimationComplete() before that call
AnimationUnit(a, call, dt, wasComplete) ==
  [kind |-> "TitanicAnimationSystem", a |-> a, call |-> call, dt |-> dt,
   wasComplete |-> wasComplete]

AnimationInit ==
  /\ EngineIdle
  /\ unit = AnimationUnit(TitanicAnimationSystem, "new", 0, FALSE)

AnimationStart ==
  /\ unit' = AnimationUnit(animationStart(unit.a), "start", 0, unit.a.isComplete)
  /\ UNCHANGED engineVars

AnimationReset ==
  /\ unit' = AnimationUnit(animationReset(unit.a), "reset", 0, unit.a.isComplete)
  /\ UNCHANGED engineVars

AnimationUpdate ==
  /\ \E dt \in AnimationDts :
        unit' = AnimationUnit(animationUpdate(unit.a, dt), "update", dt, unit.a.isComplete)
  /\ UNCHANGED engineVars

AnimationNext == AnimationStart \/ AnimationReset \/ AnimationUpdate

AnimationSpec == AnimationInit /\ [][AnimationNext]_vars

\* LevelManager alone: generateObstacles, generateDoor and generateChalice
\* of any tier, on draws of Math.random().  The draws of the run are
\* collected one candidate at a time, each with a width draw of its own;
\* the height draw is the same for every candidate of one run, and every
\* width of one run lies the same number of doubles above its draw
\* n / DrawDen.
UlpNums == {0, 5}

GeneratorUnit(level, height, ulps, draws, call, obs, d, ch) ==
  [kind |-> "LevelManager", level |-> level, height |-> height, ulps |-> ulps,
   draws |-> draws, call |-> call, obstacles |-> obs, door |-> d, chalice |-> ch]

GeneratorInit ==
  /\ EngineIdle
  /\ unit = GeneratorUnit(1, 0, 0, << >>, "new", << >>, NoDoor, NoChalice)

GeneratorLevel ==
  /\ unit.call \in {"new", "generateObstacles"}
  /\ \E level \in 1..MAX_LEVEL, h \in DrawNums, ulps \in UlpNums :
        unit' = GeneratorUnit(level, h, ulps, << >>, "level", << >>, NoDoor, NoChalice)
  /\ UNCHANGED engineVars

GeneratorDraw ==
  /\ Len(unit.draws) < getLevelConfig(unit.level).obstacleCount
  /\ \E w \in WidthNums :
        unit' = GeneratorUnit(unit.level, unit.height, unit.ulps,
                              Append(unit.draws, [w |-> w, h |-> unit.height, u |-> unit.ulps]),
                              "random", << >>, NoDoor, NoChalice)
  /\ UNCHANGED engineVars

GeneratorGenerate ==
  /\ Len(unit.draws) = getLevelConfig(unit.level).obstacleCount
  /\ unit' = GeneratorUnit(unit.level, unit.height, unit.ulps, unit.draws,
                           "generateObstacles",
                           generateObstacles(unit.level, unit.draws),
                           generateDoor(unit.level),
                           generateChalice(unit.level))
  /\ UNCHANGED engineVars

GeneratorNext == GeneratorLevel \/ GeneratorDraw \/ GeneratorGenerate

GeneratorSpec == GeneratorInit /\ [][GeneratorNext]_vars

\* GhostCharacter, Obstacle and PhysicsSystem alone: a character placed
\* around one obstacle of a list (the obstacle of the collision tests, or
\* a generated level), then any sequence of jump, checkCollision of that
\* obstacle, resolveCollision on the detected side, and
\* checkObstacleCollisions of the list.
\* Positions lie GridStep apart horizontally and half of it vertically,
\* from touching an edge of the obstacle from outside to GridN steps past
\* it.  Frames without input last one or two time units.
GridStep == 10 * PX
GridN == 4
PhysicsDts == {1, 2}

TestObstacle == Obstacle(Float(200 * PX, 0), 400 * PX, Float(50 * PX, 0), 50 * PX)
TestCharacterSize == << 40 * PX, 40 * PX >>

ObstacleLists ==
  { << TestObstacle >> } \cup
  UNION { { generateObstacles(level, draws) : draws \in LevelDraws(level) } :
            level \in 1..MAX_LEVEL }

CharacterSizes(obs) ==
  IF obs = << TestObstacle >> THEN { TestCharacterSize }
  ELSE { << CHARACTER_WIDTH, CHARACTER_HEIGHT >> }

XsAround(o, width) ==
  { o.x - width + k * GridStep : k \in 0..GridN } \cup
  { o.x + o.width - k * GridStep : k \in 0..GridN }

YsAround(o, height) ==
  { o.y - height + k * (GridStep \div 2) : k \in 0..(2 * GridN) } \cup
  { o.y + o.height - k * GridStep : k \in 0..GridN }

VelocityYs == { -100 * PX, 0, 100 * PX }

\* a character of the given size, vertical velocity and flags
Placed(x, y, size, v, air) ==
  [Ghost(x, y, size[1], size[2]) EXCEPT !.velocityY = v, !.isJumping = air, !.isOnGround = ~air]

NoCollision == [collided |-> FALSE, side |-> "none"]

\* update() on a game level with no direction held and no jump requested,
\* as far as the character goes
quietFrame(c, obs, dt) ==
  checkObstacleCollisions(checkGroundCollision(updatePhysics(c, dt), GROUND_Y), obs)

\* before is the character as it was when the last call began; restingOn
\* is the obstacle onto whose top resolveCollision last put the character,
\* 0 if none or if the character has jumped since
PhysicsUnit(obs, c, call, target, collision) ==
  [kind |-> "PhysicsSystem", obstacles |-> obs, character |-> c, before |-> c,
   call |-> call, target |-> target, collision |-> collision, restingOn |-> 0]

PhysicsInit ==
  /\ EngineIdle
  /\ \E obs \in ObstacleLists :
       \E i \in 1..Len(obs), size \in CharacterSizes(obs), v \in VelocityYs, air \in BOOLEAN :
         \E x \in XsAround(obs[i], size[1]), y \in YsAround(obs[i], size[2]) :
           unit = PhysicsUnit(obs, Placed(x, y, size, v, air), "new", i, NoCollision)

\* The calls are made in the order of a landing: the character is placed,
\* probed, resolved or jumped, and once resolved left to itself for frames
\* of update() without input.
PhysicsCheckCollision ==
  /\ unit.call \notin {"update", "applyGravity"}
  /\ unit' = [unit EXCEPT !.call = "checkCollision", !.before = unit.character,
                          !.collision = checkCollision(unit.obstacles[unit.target],
                                                       unit.character)]
  /\ UNCHANGED engineVars

PhysicsResolveCollision ==
  /\ unit.call = "checkCollision"
  /\ unit.collision.collided
  /\ unit' = [unit EXCEPT !.call = "resolveCollision", !.before = unit.character,
                          !.restingOn = IF unit.collision.side = "top" THEN unit.target ELSE 0,
                          !.character = resolveCollision(unit.character,
                                                         unit.obstacles[unit.target],
                                                         unit.collision.side)]
  /\ UNCHANGED engineVars

PhysicsCheckObstacleCollisions ==
  /\ unit.call \notin {"update", "applyGravity"}
  /\ unit' = [unit EXCEPT !.call = "checkObstacleCollisions", !.before = unit.character,
                          !.character = checkObstacleCollisions(unit.character, unit.obstacles),
                          !.collision = NoCollision]
  /\ UNCHANGED engineVars

PhysicsJump ==
  /\ unit.call \notin {"update", "applyGravity"}
  /\ unit' = [unit EXCEPT !.call = "jump", !.before = unit.character,
                          !.character = jump(unit.character),
                          !.collision = NoCollision, !.restingOn = 0]
  /\ UNCHANGED engineVars

\* applyGravity on its own, on a character as placed or after its jump,
\* any number of times in a row
PhysicsApplyGravity ==
  /\ unit.call \in {"new", "jump", "applyGravity"}
  /\ \E dt \in PhysicsDts :
        unit' = [unit EXCEPT !.call = "applyGravity", !.before = unit.character,
                             !.character = applyGravity(unit.character, dt),
                             !.collision = NoCollision]
  /\ UNCHANGED engineVars

PhysicsQuietFrame ==
  /\ unit.call \in {"resolveCollision", "update"}
  /\ \E dt \in PhysicsDts :
        unit' = [unit EXCEPT !.call = "update", !.before = unit.character,
                             !.character = quietFrame(unit.character, unit.obstacles, dt),
                             !.collision = NoCollision]
  /\ UNCHANGED engineVars

PhysicsNext ==
  \/ PhysicsCheckCollision
  \/ PhysicsResolveCollision
  \/ PhysicsCheckObstacleCollisions
  \/ PhysicsJump
  \/ PhysicsApplyGravity
  \/ PhysicsQuietFrame

PhysicsSpec == PhysicsInit /\ [][PhysicsNext]_vars

(***************************************************************************)
(* InputHandler on its own: the key events of the window and the frames    *)
(* of the engine that act on a one-shot trigger                            *)
(***************************************************************************)
\* a one-shot trigger is followed for at most MaxActs acts
MaxActs == 2

ArrowKeys == {"ArrowLeft", "ArrowRight"}
OneShotKeys == {"Enter", " "}

\* in: the InputHandler; held: the keys that are down, a key being down
\* from its keydown to its keyup; order: the arrow keys that are down, in
\* the order in which they went down; acted: how often a frame has acted
\* on the trigger since the key went down
InputUnit(in, held, order, acted, call) ==
  [kind |-> "InputHandler", in |-> in, held |-> held, order |-> order,
   acted |-> acted, call |-> call]

InputInit ==
  /\ EngineIdle
  /\ unit = InputUnit(InputHandler, {}, << >>, [k \in OneShotKeys |-> 0], "new")

Without(order, key) == SelectSeq(order, LAMBDA k : k # key)

\* a keydown event: the key goes down, or is down already and repeats
InputKeyDown ==
  /\ \E key \in Keys :
        unit' = InputUnit(handleKeyDown(unit.in, key),
                          unit.held \cup {key},
                          IF key \in ArrowKeys /\ key \notin unit.held
                          THEN Append(unit.order, key) ELSE unit.order,
                          IF key \in OneShotKeys /\ key \notin unit.held
                          THEN [unit.acted EXCEPT ![key] = 0] ELSE unit.acted,
                          "handleKeyDown")
  /\ UNCHANGED engineVars

InputKeyUp ==
  /\ \E key \in Keys :
        unit' = InputUnit(handleKeyUp(unit.in, key),
                          unit.held \ {key},
                          Without(unit.order, key),
                          unit.acted,
                          "handleKeyUp")
  /\ UNCHANGED engineVars

\* a frame finds the trigger set, consumes it and acts: the door
\* transition or the restart for Enter, the jump for the space bar
InputAct ==
  /\ \E key \in OneShotKeys :
        /\ IF key = "Enter" THEN unit.in.enterPressed ELSE unit.in.spacePressed
        /\ unit.acted[key] < MaxActs
        /\ unit' = InputUnit(IF key = "Enter" THEN consumeEnter(unit.in)
                                               ELSE consumeSpace(unit.in),
                              unit.held, unit.order,
                              [unit.acted EXCEPT ![key] = @ + 1],
                              "consume")
  /\ UNCHANGED engineVars

InputNext ==
  \/ InputKeyDown
  \/ InputKeyUp
  \/ InputAct

InputSpec == InputInit /\ [][InputNext]_vars

(***************************************************************************)
(* The engine with one frame whose timestamp lies before that of the frame *)
(* before it: gameLoop hands update() a negative deltaTime                 *)
(***************************************************************************)
InvalidDts == {-FrameDt}

\* unit records the deltaTime of the invalid frame, the last step of the run
TickInvalid ==
  /\ isRunning
  /\ \E dt \in InvalidDts, offset \in DoorOffsets :
        /\ SetWorld(update(World, dt, offset))
        /\ unit' = [kind |-> "update", dt |-> dt]
  /\ UNCHANGED isRunning

InvalidDtNext ==
  \/ unit = NoUnit /\ Next
  \/ unit = NoUnit /\ TickInvalid

InvalidDtSpec == Init /\ [][InvalidDtNext]_vars

(***************************************************************************)
(* Vocabulary of the properties                                            *)
(***************************************************************************)
\* the step ran update(): a frame of the game loop
Updated == updatePath' # "none"

TimeoutStatuses == {"timeout-animating", "timeout-gameover"}

CharacterAtLobbyStart ==
  character = GhostCharacter(LOBBY_START_X, LOBBY_START_Y)

CharacterAtLevelStart ==
  character = GhostCharacter(LEVEL_START_X, LEVEL_START_Y)

\* the step is the restart from the timeout game over screen
Restarts == gameStatus = "timeout-gameover" /\ gameStatus' = "playing"

(***************************************************************************)
(* C7: in timeout-gameover a frame that sees Enter pressed consumes it and *)
(* restarts: playing at tier 0, the character at the lobby start, the      *)
(* timer at its full duration, active and not triggered, the animation     *)
(* cursor at -1, not complete, all stage times 0; a frame without Enter    *)
(* leaves the status timeout-gameover.                                     *)
(***************************************************************************)
C7_RestartResetsEverything ==
  [][ (gameStatus = "timeout-gameover" /\ Updated) =>
        IF input.enterPressed
        THEN /\ gameStatus' = "playing"
             /\ currentLevel' = 0
             /\ ~input'.enterPressed
             /\ CharacterAtLobbyStart'
             /\ timeoutManager' = [timeRemaining |-> TIMEOUT_DURATION, isActive |-> TRUE,
                                   hasTriggered |-> FALSE]
             /\ titanic' = [titanicX |-> TITANIC_START_X, icebergSplitOffset |-> 0,
                            ghostSinkY |-> 0,
                            elapsed |-> << 0, 0, 0, 0 >>, currentStageIndex |-> -1,
                            isComplete |-> FALSE]
        ELSE gameStatus' = "timeout-gameover" ]_vars

\* a restart has just happened after the character had walked away from the
\* lobby start and the timer had run out
C7_Witness ==
  /\ updatePath = "timeout-gameover"
  /\ gameStatus = "playing"
  /\ CharacterAtLobbyStart
  /\ timeoutManager.timeRemaining = TIMEOUT_DURATION

(***************************************************************************)
(* C8: when the game loads, and after every restart from timeout-gameover, *)
(* the countdown's remaining time is exactly 15 seconds.                   *)
(***************************************************************************)
\* the countdown of Requirements 1.1 and 4.3
REQUIRED_TIMEOUT == 15 * TicksPerSecond

C8_TimerStartsAtFifteenSeconds ==
  /\ timeoutManager.timeRemaining = REQUIRED_TIMEOUT
  /\ [][ Restarts => timeoutManager'.timeRemaining = REQUIRED_TIMEOUT ]_vars

(***************************************************************************)
(* C2: playing at the final tier, a frame that brings the character's rect *)
(* onto the uncollected prize sets collected and the status won; from then *)
(* on no frame, key event or callback changes the status away from won or  *)
(* resets collected.  (A frame never starts with the character on the      *)
(* uncollected prize while playing: the frame that put it there won.)      *)
(***************************************************************************)
C2_WinIsTerminal ==
  [][ /\ ( /\ Updated
           /\ gameStatus = "playing" /\ currentLevel = MAX_LEVEL
           /\ chalice.present /\ ~chalice.collected
           /\ RectOverlap(character', chalice) )
         => (chalice'.collected /\ gameStatus' = "won")
      /\ gameStatus = "won" => (gameStatus' = "won" /\ chalice' = chalice)
      /\ chalice.collected => (chalice'.collected /\ gameStatus' = "won")
      /\ (gameStatus' = "playing" /\ chalice'.present /\ ~chalice'.collected)
         => ~RectOverlap(character', chalice') ]_vars

\* the prize has been collected on tier 6 and frames have run since
C2_Witness ==
  /\ gameStatus = "won"
  /\ currentLevel = MAX_LEVEL
  /\ chalice.collected
  /\ RectOverlap(character, chalice)
  /\ updatePath = "won"

(***************************************************************************)
(* C4: playing at tier 0, the frame in which the countdown reaches 0 sets  *)
(* the status timeout-animating and starts the animation at its first      *)
(* stage; no other step enters timeout-animating; the timeout fires at     *)
(* most once until the next restart (entering needs the latch clear, sets  *)
(* it, and only a restart clears it).                                      *)
(***************************************************************************)
EntersTimeout == gameStatus # "timeout-animating" /\ gameStatus' = "timeout-animating"

LeftLobby == gameStatus = "transitioning" \/ currentLevel > 0

C5_DoorEntryStopsCountdown ==
  [][ /\ LeftLobby' => ( /\ ~timeoutManager'.isActive
                         /\ gameStatus' \notin TimeoutStatuses
                         /\ LeftLobby \/ (gameStatus = "playing" /\ currentLevel = 0 /\ Updated) )
      /\ LeftLobby => (LeftLobby' /\ timeoutManager' = timeoutManager) ]_vars

\* a game level is being played after the door was entered with part of
\* the countdown used up
C5_Witness ==
  /\ currentLevel > 0
  /\ gameStatus = "playing"
  /\ updatePath = "level"
  /\ timeoutManager.timeRemaining \in 1..(TIMEOUT_DURATION - 1)
  /\ ~timeoutManager.isActive

(***************************************************************************)
(* C1: a frame of a playing game that finds the character on the door with *)
(* Enter pressed sets the status transitioning; the callback then sets it  *)
(* back to playing with the tier one higher, within 1..6, a freshly        *)
(* generated level and the character at the level start.                   *)
(***************************************************************************)
\* the frame checks the door with the character where the frame put it
OnDoorWithEnter ==
  /\ Updated
  /\ gameStatus = "playing"
  /\ door.present
  /\ checkDoorOverlap(character', door)
  /\ input.enterPressed

\* the step leaves a level as initializeLevel generates it
FreshLevel ==
  /\ \E draws \in LevelDraws(currentLevel') :
        obstacles' = generateObstacles(currentLevel', draws)
  /\ door' = generateDoor(currentLevel')
  /\ chalice' = generateChalice(currentLevel')

C1_DoorEntryAdvancesOneTier ==
  [][ /\ OnDoorWithEnter => gameStatus' = "transitioning"
      /\ (gameStatus = "transitioning" /\ gameStatus' # "transitioning")
         => ( /\ gameStatus' = "playing"
              /\ currentLevel' = currentLevel + 1
              /\ currentLevel' \in 1..MAX_LEVEL
              /\ FreshLevel
              /\ CharacterAtLevelStart' ) ]_vars

(***************************************************************************)
(* C3: the frame of a playing game that leaves the character outside the   *)
(* playable envelope starts the falling sub-state and keeps the status     *)
(* playing, unless the lobby countdown runs out in that same frame; the    *)
(* status becomes lost only in a later frame, one of the falling           *)
(* sub-state, in which the falling timer exceeds 2 seconds.                *)
(***************************************************************************)
OutsideEnvelope ==
  IF currentLevel = 0
  THEN character.x < CANVAS_WIDTH \div 4 \/ character.x + CHARACTER_WIDTH > (3 * CANVAS_WIDTH) \div 4
  ELSE character.x < 0 \/ character.x + CHARACTER_WIDTH > PLATFORM_WIDTH

LeavesEnvelope ==
  /\ Updated
  /\ gameStatus = "playing"
  /\ ~isFalling
  /\ OutsideEnvelope'

StartsFalling == isFalling' /\ fallingTimer' = 0 /\ gameStatus' = "playing"

LossOnlyAfterTwoSeconds ==
  /\ (gameStatus # "lost" /\ gameStatus' = "lost")
     => (Updated /\ isFalling /\ ~isFalling' /\ fallingTimer' > FALLING_LIMIT)
  /\ (isFalling /\ isFalling') => (gameStatus' = "playing" /\ fallingTimer' <= FALLING_LIMIT)
  /\ (~isFalling /\ isFalling') => gameStatus' = "playing"

\* the claim as stated: every frame that leaves the envelope starts falling
C3_LeavingEnvelopeStartsFalling ==
  [][ (LeavesEnvelope => StartsFalling) /\ LossOnlyAfterTwoSeconds ]_vars

C3_LeavingEnvelopeStartsFallingUnlessTimeout ==
  [][ /\ (LeavesEnvelope /\ gameStatus' # "timeout-animating") => StartsFalling
      /\ (LeavesEnvelope /\ gameStatus' = "timeout-animating")
         => (currentLevel = 0 /\ ~isFalling' /\ timeoutManager'.timeRemaining = 0)
      /\ LossOnlyAfterTwoSeconds ]_vars

\* the character fell for more than 2 seconds and the game is lost
C3_Witness ==
  /\ gameStatus = "lost"
  /\ updatePath = "falling"
  /\ ~isFalling
  /\ fallingTimer > FALLING_LIMIT
  /\ OutsideEnvelope

(***************************************************************************)
(* C9: the status is always one of the six GameStatus values; a frame runs *)
(* the physics step (gravity, ground and obstacle collisions) only when    *)
(* the status is playing above tier 0, and decrements the countdown only   *)
(* when the status is playing at tier 0.                                   *)
(***************************************************************************)
PhysicsUntouched ==
  /\ character'.velocityY = character.velocityY
  /\ character'.isJumping = character.isJumping
  /\ character'.isOnGround = character.isOnGround

C9_PhysicsAndCountdownOnlyWhilePlaying ==
  /\ gameStatus \in GameStatus
  /\ [][ /\ gameStatus' \in GameStatus
         /\ updatePath' = "level" => (gameStatus = "playing" /\ currentLevel > 0 /\ ~isFalling)
         /\ updatePath' = "lobby" => (gameStatus = "playing" /\ currentLevel = 0 /\ ~isFalling)
         /\ (Updated /\ ~(gameStatus = "playing" /\ currentLevel > 0)) => PhysicsUntouched
         /\ timeoutManager'.timeRemaining < timeoutManager.timeRemaining
            => (Updated /\ gameStatus = "playing" /\ currentLevel = 0) ]_vars

\* a frame of a game level has run gravity while the countdown, stopped in
\* the lobby, kept its value
C9_Witness ==
  /\ updatePath = "level"
  /\ gameStatus = "playing"
  /\ character.isJumping
  /\ character.velocityY # 0
  /\ timeoutManager.timeRemaining < TIMEOUT_DURATION

(***************************************************************************)
(* C10: a frame whose status is transitioning, won, lost,                  *)
(* timeout-animating or timeout-gameover leaves the character's x, y,      *)
(* velocityY, jumping and onGround unchanged whatever direction is active  *)
(* and whether or not Space is pressed (the restart on Enter in            *)
(* timeout-gameover apart), and outside playing no key event and no frame  *)
(* input other than Enter in timeout-gameover changes the status.          *)
(***************************************************************************)
NotPlaying == {"transitioning", "won", "lost", "timeout-animating", "timeout-gameover"}

C10_InputIgnoredOutsidePlaying ==
  [][ (gameStatus \in NotPlaying /\ pending' = pending) =>
        /\ ~(gameStatus = "timeout-gameover" /\ input.enterPressed /\ Updated)
           => character' = character
        /\ gameStatus' # gameStatus
           => \/ gameStatus = "timeout-gameover" /\ input.enterPressed /\ Updated
              \/ /\ gameStatus = "timeout-animating" /\ Updated
                 /\ gameStatus' = "timeout-gameover" /\ titanic'.isComplete
        /\ ~Updated => gameStatus' = gameStatus ]_vars

\* a frame of the timeout animation has just run with a direction held and
\* Space pressed
C10_Witness ==
  /\ gameStatus = "timeout-animating"
  /\ updatePath = "timeout-animating"
  /\ input.activeDirection # "none"
  /\ input.spacePressed

(***************************************************************************)
(* C6: from timeout-animating, if frames with a positive deltaTime keep    *)
(* coming, the status eventually becomes timeout-gameover; the status      *)
(* becomes timeout-gameover in the very frame in which the fourth stage    *)
(* reaches its duration, and never while one of the first three stages or  *)
(* an unfinished fourth stage is current.                                  *)
(***************************************************************************)
LAST_STAGE == Len(STAGE_DURATIONS)

FourthStageFinishes ==
  /\ titanic.currentStageIndex = LAST_STAGE - 1
  /\ titanic.elapsed[LAST_STAGE] < STAGE_DURATIONS[LAST_STAGE]
  /\ titanic'.elapsed[LAST_STAGE] >= STAGE_DURATIONS[LAST_STAGE]

C6_AnimationEndsInGameOver ==
  /\ ([]<><<TickPositive>>_vars)
       => ((gameStatus = "timeout-animating") ~> (gameStatus = "timeout-gameover"))
  /\ [][ /\ (gameStatus # "timeout-gameover" /\ gameStatus' = "timeout-gameover")
            => (Updated /\ gameStatus = "timeout-animating" /\ FourthStageFinishes)
         /\ (gameStatus = "timeout-animating" /\ FourthStageFinishes)
            => gameStatus' = "timeout-gameover"
         /\ gameStatus' = "timeout-animating"
            => ( /\ titanic'.currentStageIndex \in 0..(LAST_STAGE - 1)
                 /\ ~titanic'.isComplete
                 /\ titanic'.elapsed[titanic'.currentStageIndex + 1]
                      < STAGE_DURATIONS[titanic'.currentStageIndex + 1] ) ]_vars

\* the animation has just completed its fourth stage
C6_Witness ==
  /\ gameStatus = "timeout-gameover"
  /\ updatePath = "timeout-animating"
  /\ titanic.isComplete
  /\ titanic.currentStageIndex = LAST_STAGE
  /\ \A i \in 1..LAST_STAGE : titanic.elapsed[i] >= STAGE_DURATIONS[i]

(***************************************************************************)
(* C11: stop() cancels a pending level transition with it: stop() leaves   *)
(* no callback pending, and while the engine is stopped no step changes    *)
(* the tier, the obstacles, the door, the prize, the character or the      *)
(* status.                                                                 *)
(***************************************************************************)
C11_StopCancelsPendingTransition ==
  [][ /\ (isRunning /\ ~isRunning') => pending' = << >>
      /\ (~isRunning /\ ~isRunning')
         => ( /\ currentLevel' = currentLevel
              /\ obstacles' = obstacles
              /\ door' = door
              /\ chalice' = chalice
              /\ character' = character
              /\ gameStatus' = gameStatus ) ]_vars

(***************************************************************************)
(* C13: a lobby frame in which the countdown reaches 0 while the character *)
(* is on the door with Enter pressed enters the door: the status becomes   *)
(* transitioning, towards tier 1, and not timeout-animating.               *)
(***************************************************************************)
CountdownRunsOut ==
  /\ currentLevel = 0
  /\ ~isFalling
  /\ timeoutManager.isActive
  /\ timeoutManager.timeRemaining > 0
  /\ timeoutManager'.timeRemaining = 0

C13_DoorEntryBeatsTimeout ==
  [][ (OnDoorWithEnter /\ CountdownRunsOut)
        => ( /\ gameStatus' = "transitioning"
             /\ pending' = << 1 >>
             /\ ~timeoutManager'.hasTriggered ) ]_vars

(***************************************************************************)
(* C14: the countdown is a one-shot latch: an update(dt) of an active      *)
(* timer decreases the remaining time by dt, clamped at 0; update returns  *)
(* true exactly in the call where the remaining time first reaches 0; once *)
(* it has returned true it does not return true again, whatever start(),   *)
(* stop() and update() calls follow, until reset(); update on an inactive  *)
(* timer changes nothing and returns false.                                *)
(***************************************************************************)
C14_TimerIsOneShotLatch ==
  [][ unit'.call = "update" =>
        /\ unit.tm.isActive
           => unit'.tm.timeRemaining = Max(unit.tm.timeRemaining - unit'.dt, 0)
        /\ unit'.returned
           <=> (unit.tm.isActive /\ unit.tm.timeRemaining > 0 /\ unit'.tm.timeRemaining = 0)
        /\ unit.fired => ~unit'.returned
        /\ ~unit.tm.isActive => (unit'.tm = unit.tm /\ ~unit'.returned) ]_vars

(***************************************************************************)
(* C15: after start(), whatever positive dt the update calls pass (longer  *)
(* than a stage included), the cursor moves through titanic-approach,      *)
(* collision, iceberg-split, ghost-sink one stage at a time, never back    *)
(* and never over a stage, and isAnimationComplete() is false until each   *)
(* of the four stages has itself accumulated elapsed >= its duration.      *)
(***************************************************************************)
StageDone(a, i) == a.elapsed[i] >= STAGE_DURATIONS[i]

C15_StagesRunInOrder ==
  /\ STAGE_NAMES = << "titanic-approach", "collision", "iceberg-split", "ghost-sink" >>
  /\ [][ /\ unit'.call = "start" => unit'.a.currentStageIndex = 0
         /\ unit'.call = "update"
            => ( /\ unit'.a.currentStageIndex
                      \in {unit.a.currentStageIndex, unit.a.currentStageIndex + 1}
                 /\ unit'.a.currentStageIndex > unit.a.currentStageIndex
                      => StageDone(unit'.a, unit'.a.currentStageIndex)
                 /\ \A i \in 1..LAST_STAGE :
                      /\ i <= unit'.a.currentStageIndex => StageDone(unit'.a, i)
                      /\ i > unit'.a.currentStageIndex + 1 => unit'.a.elapsed[i] = 0
                 /\ unit'.a.isComplete
                      <=> (\A i \in 1..LAST_STAGE : StageDone(unit'.a, i)) ) ]_vars

\* the animation has been run to completion with an update longer than a
\* stage
C15_Witness ==
  /\ unit.kind = "TitanicAnimationSystem"
  /\ unit.call = "update"
  /\ unit.a.isComplete
  /\ ~unit.wasComplete
  /\ unit.a.currentStageIndex = LAST_STAGE
  /\ \E i \in 1..LAST_STAGE : unit.a.elapsed[i] > 2 * STAGE_DURATIONS[i]

(***************************************************************************)
(* C16: once the cursor has passed the last stage isAnimationComplete() is *)
(* true, and it stays true until reset() is called; an update(dt) of a     *)
(* complete animation changes neither the flag, the cursor, a stage's      *)
(* elapsed time nor a derived offset.                                      *)
(***************************************************************************)
CompleteUpdateChangesNothing ==
  /\ unit.a.currentStageIndex >= LAST_STAGE => unit.a.isComplete
  /\ (unit.a.isComplete /\ unit'.call = "update") => unit'.a = unit.a

\* the claim as stated: only reset() ends completeness
C16_CompleteUntilReset ==
  [][ /\ CompleteUpdateChangesNothing
      /\ (unit.a.isComplete /\ ~unit'.a.isComplete) => unit'.call = "reset" ]_vars

\* completeness ends with reset() or with start()
C16_CompleteUntilResetOrStart ==
  [][ /\ CompleteUpdateChangesNothing
      /\ (unit.a.isComplete /\ ~unit'.a.isComplete) => unit'.call \in {"reset", "start"}
      /\ unit'.call \in {"reset", "start"} => ~unit'.a.isComplete ]_vars

\* update has been called on a complete animation
C16_Witness ==
  /\ unit.kind = "TitanicAnimationSystem"
  /\ unit.call = "update"
  /\ unit.wasComplete
  /\ unit.a.isComplete
  /\ unit.a.ghostSinkY = CANVAS_HEIGHT

(***************************************************************************)
(* Generated levels (LevelManager.generateObstacles), under GeneratorSpec  *)
(***************************************************************************)
\* generateObstacles and generateDoor have returned for the drawn tier
Generated == unit.kind = "LevelManager" /\ unit.call = "generateObstacles"

ObstacleX(o) == Float(o.x, o.xUlp)
\* obstacle.x + obstacle.width, as the code computes it
ObstacleRight(o) == fadd(Float(o.x, o.xUlp), Float(o.width, o.widthUlp))
\* a <= b for two numbers
FloatLeq(a, b) == a.h < b.h \/ (a.h = b.h /\ a.u <= b.u)
\* next.x - (prev.x + prev.width), as the code computes it
ObstacleGap(prev, next) == fsub(ObstacleX(next), ObstacleRight(prev))

\* strict intersection of an obstacle's rectangle with the door's
ObstacleOverlapsDoor(o, d) ==
  /\ d.present
  /\ ~FloatLeq(Float(d.x + d.width, 0), ObstacleX(o))
  /\ ~FloatLeq(ObstacleRight(o), Float(d.x, 0))
  /\ o.y < d.y + d.height
  /\ o.y + o.height > d.y

DOOR_CLEARANCE == 100 * PX

\* C17: in every generated tier 1-5, on every draw, no obstacle
\* rectangle overlaps the door rectangle and every obstacle lies between
\* x = 100 and 100 units left of the door:
\* obstacle.x >= 100 and obstacle.x + obstacle.width <= doorX - 100.
C17_ObstaclesClearOfDoor ==
  (Generated /\ unit.level <= 5) =>
    \A i \in 1..Len(unit.obstacles) :
      /\ ~ObstacleOverlapsDoor(unit.obstacles[i], unit.door)
      /\ FloatLeq(Float(DOOR_CLEARANCE, 0), ObstacleX(unit.obstacles[i]))
      /\ FloatLeq(ObstacleRight(unit.obstacles[i]),
                  Float(unit.door.x - DOOR_CLEARANCE, 0))

\* C18: in every generated tier 1-6, on every draw, every obstacle lies
\* horizontally within the platform, 0 <= x and x + width <= 1200, and
\* rests on the ground, y = GROUND_Y - height.
C18_ObstaclesWithinPlatform ==
  Generated =>
    \A i \in 1..Len(unit.obstacles) :
      /\ FloatLeq(Float(0, 0), ObstacleX(unit.obstacles[i]))
      /\ FloatLeq(ObstacleRight(unit.obstacles[i]), Float(PLATFORM_WIDTH, 0))
      /\ unit.obstacles[i].y = GROUND_Y - unit.obstacles[i].height

\* C19: in every generated tier 1-6, on every draw, the gap between
\* consecutive obstacles, next.x - (prev.x + prev.width), is at least the
\* tier's obstacleMinSpacing.
C19_ConsecutiveGapAtLeastMinSpacing ==
  Generated =>
    \A i \in 1..(Len(unit.obstacles) - 1) :
      FloatLeq(Float(getLevelConfig(unit.level).obstacleMinSpacing, 0),
               ObstacleGap(unit.obstacles[i], unit.obstacles[i + 1]))

\* C20: in every generated tier 1-6, on every draw, generateObstacles
\* returns exactly obstacleCount obstacles (two in tier 1), each of height
\* at most 0.8 times the maximum jump height 400^2 / (2 * 800) = 100: no
\* candidate is skipped by the jumpability test.
C20_EveryCandidateKept ==
  /\ MaxJumpHeight = 100 * PX
  /\ LEVEL_CONFIGS[1].obstacleCount = 2
  /\ Generated =>
       /\ Len(unit.obstacles) = getLevelConfig(unit.level).obstacleCount
       /\ \A i \in 1..Len(unit.obstacles) :
            /\ 10 * unit.obstacles[i].height <= 8 * MaxJumpHeight
            /\ unit.obstacles[i].height =
                 DrawIn(getLevelConfig(unit.level).obstacleHeightRange, unit.draws[i].h)

\* the last tier generated with seven candidates of its taller height draw
C20_Witness ==
  /\ Generated
  /\ unit.level = MAX_LEVEL
  /\ Len(unit.obstacles) = 7
  /\ unit.height > 0
  /\ \A i \in 1..Len(unit.obstacles) :
       unit.obstacles[i].height > getLevelConfig(MAX_LEVEL).obstacleHeightRange[1]

(***************************************************************************)
(* Doors and the prize of the initialized level, under Spec                *)
(***************************************************************************)
\* C21: in every initialized level of tier t in 1..6 a door is present iff
\* t < 6 and the prize is present iff t = 6 (generateDoor(t) is non-null
\* exactly for t < 6, generateChalice(t) exactly for t = 6); in the lobby
\* (tier 0) a door is present and no prize.
C21_DoorUnlessFinalPrizeOnlyFinal ==
  /\ \A t \in 1..MAX_LEVEL :
       /\ generateDoor(t).present <=> t < MAX_LEVEL
       /\ generateChalice(t).present <=> t = MAX_LEVEL
  /\ currentLevel \in 0..MAX_LEVEL
  /\ door.present <=> currentLevel < MAX_LEVEL
  /\ chalice.present <=> currentLevel = MAX_LEVEL
  /\ currentLevel \in 1..MAX_LEVEL =>
       door = generateDoor(currentLevel) /\ chalice.present = generateChalice(currentLevel).present

\* the final level has been initialized: the prize and no door
C21_Witness ==
  /\ currentLevel = MAX_LEVEL
  /\ gameStatus = "playing"
  /\ chalice.present /\ ~chalice.collected
  /\ ~door.present
  /\ Len(obstacles) = getLevelConfig(MAX_LEVEL).obstacleCount

(***************************************************************************)
(* Spawn rectangles of a generated level, under GeneratorSpec              *)
(***************************************************************************)
\* strict intersection of an obstacle's rectangle with the rectangle r
ObstacleOverlapsRect(o, r) ==
  /\ ~FloatLeq(Float(r.x + r.width, 0), ObstacleX(o))
  /\ ~FloatLeq(ObstacleRight(o), Float(r.x, 0))
  /\ o.y < r.y + r.height
  /\ o.y + o.height > r.y

\* the character's rectangle where initializeLevel puts it in tiers 1-6
SpawnRect ==
  [x |-> LEVEL_START_X, y |-> LEVEL_START_Y,
   width |-> CHARACTER_WIDTH, height |-> CHARACTER_HEIGHT]

\* C22: after a level of any tier 1-6 is generated, on every draw, the
\* character's spawn rectangle (x = 50, resting on the ground) overlaps no
\* obstacle rectangle, and on tier 6 the prize rectangle (at 650, 500,
\* 40 x 50) overlaps no obstacle rectangle.
C22_SpawnRectsClearOfObstacles ==
  /\ SpawnRect.x = 50 * PX /\ SpawnRect.y + SpawnRect.height = GROUND_Y
  /\ Generated =>
       \A i \in 1..Len(unit.obstacles) :
         /\ ~ObstacleOverlapsRect(unit.obstacles[i], SpawnRect)
         /\ unit.level = MAX_LEVEL =>
              /\ unit.chalice = Chalice(650 * PX, 500 * PX)
              /\ ~ObstacleOverlapsRect(unit.obstacles[i], unit.chalice)

(***************************************************************************)
(* The static tier table                                                   *)
(***************************************************************************)
\* tier A is no harder than tier B
NoHarder(A, B) ==
  /\ LEVEL_CONFIGS[A].obstacleCount <= LEVEL_CONFIGS[B].obstacleCount
  /\ LEVEL_CONFIGS[A].obstacleMinSpacing >= LEVEL_CONFIGS[B].obstacleMinSpacing
  /\ LEVEL_CONFIGS[A].obstacleHeightRange[2] <= LEVEL_CONFIGS[B].obstacleHeightRange[2]
  /\ LEVEL_CONFIGS[A].obstacleWidthRange[2] <= LEVEL_CONFIGS[B].obstacleWidthRange[2]

\* C23: in the static tier table, for all tiers A < B in 1..6:
\* obstacleCount(A) <= obstacleCount(B), obstacleMinSpacing(A) >=
\* obstacleMinSpacing(B), and the upper bounds of the obstacle height and
\* width ranges at B are >= those at A; a generated tier has at least as
\* many obstacles as the table gives any lower tier.
C23_DifficultyMonotone ==
  /\ Len(LEVEL_CONFIGS) = MAX_LEVEL
  /\ \A A \in 1..MAX_LEVEL, B \in 1..MAX_LEVEL : A < B => NoHarder(A, B)
  /\ Generated =>
       \A A \in 1..unit.level :
         /\ LEVEL_CONFIGS[A].obstacleCount <= Len(unit.obstacles)
         /\ LEVEL_CONFIGS[A].obstacleMinSpacing >= ObstacleSpacing(getLevelConfig(unit.level))

\* a tier above the first has been generated from the table
C23_Witness ==
  /\ Generated
  /\ unit.level = 4
  /\ Len(unit.obstacles) = LEVEL_CONFIGS[4].obstacleCount
  /\ Len(unit.obstacles) > LEVEL_CONFIGS[3].obstacleCount

(***************************************************************************)
(* Collision detection and resolution, under PhysicsSpec                   *)
(***************************************************************************)
\* the open rectangles of the character c and the obstacle o intersect
StrictlyIntersect(c, o) ==
  /\ Max(c.x, o.x) < Min(c.x + c.width, o.x + o.width)
  /\ Max(c.y, o.y) < Min(c.y + c.height, o.y + o.height)

SIDES == << "left", "right", "top", "bottom" >>

\* the four penetration depths, in the order of SIDES
Penetration(c, o) ==
  << (c.x + c.width) - o.x, (o.x + o.width) - c.x,
     (c.y + c.height) - o.y, (o.y + o.height) - c.y >>

\* side k has the minimum depth and no earlier side has it
FirstMinimum(depth, k) ==
  /\ \A j \in 1..4 : depth[k] <= depth[j]
  /\ \A j \in 1..(k - 1) : depth[j] > depth[k]

TargetObstacle == unit.obstacles[unit.target]

\* C24: Obstacle.checkCollision reports collided = true iff the character
\* and obstacle rectangles strictly intersect (edges that only touch do
\* not collide), and when collided the side is the one with the minimum
\* of the four penetration depths overlapLeft, overlapRight, overlapTop,
\* overlapBottom, ties resolved in the order left, right, top, bottom;
\* obstacle (200,400,50,50) with character (170,400,40,40) gives left.
C24_MinimumPenetrationSide ==
  (unit.kind = "PhysicsSystem" /\ unit.call = "checkCollision") =>
    /\ unit.collision.collided <=> StrictlyIntersect(unit.character, TargetObstacle)
    /\ unit.collision.collided =>
         \E k \in 1..4 :
           /\ unit.collision.side = SIDES[k]
           /\ FirstMinimum(Penetration(unit.character, TargetObstacle), k)
    /\ ~unit.collision.collided => unit.collision.side = "none"
    /\ ( /\ TargetObstacle = TestObstacle
         /\ unit.character.x = 170 * PX /\ unit.character.y = 400 * PX
         /\ unit.character.width = 40 * PX /\ unit.character.height = 40 * PX )
       => (unit.collision.collided /\ unit.collision.side = "left")

\* a collision whose least depth is shared by the top and an earlier side
\* (a tie), decided for the earlier side
C24_Witness ==
  /\ unit.kind = "PhysicsSystem" /\ unit.call = "checkCollision"
  /\ unit.collision.collided
  /\ unit.collision.side \in {"left", "right"}
  /\ Penetration(unit.character, TargetObstacle)[3] =
       Min(Penetration(unit.character, TargetObstacle)[1],
           Penetration(unit.character, TargetObstacle)[2])

\* the step is a call of resolveCollision on the side just detected
Resolves(side) == unit'.call = "resolveCollision" /\ unit.collision.side = side

\* C25: resolveCollision places the character flush against the
\* classified side: for left, character.x + character.width = obstacle.x;
\* for right, character.x = obstacle.x + obstacle.width; for top,
\* character.y = obstacle.y - character.height with velocityY = 0,
\* jumping = false, onGround = true; for bottom, character.y = obstacle.y +
\* obstacle.height with velocityY = 0 and jumping / onGround unchanged (no
\* landing).  Nothing else of the character changes.
C25_ResolvedFlushAgainstSide ==
  [][ /\ Resolves("left") =>
           /\ unit'.character.x + unit'.character.width = TargetObstacle.x
           /\ unit'.character = [unit.character EXCEPT !.x = unit'.character.x]
      /\ Resolves("right") =>
           /\ unit'.character.x = TargetObstacle.x + TargetObstacle.width
           /\ unit'.character = [unit.character EXCEPT !.x = unit'.character.x]
      /\ Resolves("top") =>
           /\ unit'.character.y = TargetObstacle.y - unit'.character.height
           /\ unit'.character =
                [unit.character EXCEPT !.y = unit'.character.y, !.velocityY = 0,
                                       !.isJumping = FALSE, !.isOnGround = TRUE]
      /\ Resolves("bottom") =>
           /\ unit'.character.y = TargetObstacle.y + TargetObstacle.height
           /\ unit'.character =
                [unit.character EXCEPT !.y = unit'.character.y, !.velocityY = 0]
      /\ unit'.call = "resolveCollision" =>
           /\ unit.collision.side \in {"left", "right", "top", "bottom"}
           /\ ~StrictlyIntersect(unit'.character, TargetObstacle)
    ]_vars

\* an airborne, rising character resolved against the bottom side: stopped
\* and still airborne
C25_Witness ==
  /\ unit.kind = "PhysicsSystem" /\ unit.call = "resolveCollision"
  /\ unit.collision.side = "bottom"
  /\ unit.character.y = TargetObstacle.y + TargetObstacle.height
  /\ unit.character.velocityY = 0
  /\ unit.character.isJumping /\ ~unit.character.isOnGround

\* Scenario B: the test obstacle (200,400,50,50) and a character at
\* (200,370,40,40) moving down with velocityY = 100
ScenarioB ==
  /\ unit.obstacles = << TestObstacle >>
  /\ unit.character.x = 200 * PX /\ unit.character.y = 370 * PX
  /\ unit.character.width = 40 * PX /\ unit.character.height = 40 * PX
  /\ unit.character.velocityY = 100 * PX

\* in Scenario B the detected side is top and the resolution leaves the
\* character at height y, stopped and on the ground
ScenarioBResolvesTo(y) ==
  /\ (ScenarioB /\ unit'.call = "checkCollision") =>
        (unit'.collision.collided /\ unit'.collision.side = "top")
  /\ (ScenarioB /\ unit'.call = "resolveCollision") =>
        /\ unit'.character.y = y
        /\ unit'.character.velocityY = 0
        /\ unit'.character.isOnGround

\* C26 as stated: in Scenario B the detected side is top, and after
\* resolution character.y = 350, velocityY = 0 and onGround = true.
C26_ScenarioBLandsAt350 == [][ScenarioBResolvesTo(350 * PX)]_vars

\* C26 amended: in Scenario B the detected side is top, and after
\* resolution character.y = 360 (the obstacle's top 400 less the
\* character's height 40), velocityY = 0 and onGround = true.
C26_ScenarioBLandsAt360 == [][ScenarioBResolvesTo(360 * PX)]_vars

\* the character of Scenario B after its resolution
C26_Witness ==
  /\ unit.kind = "PhysicsSystem" /\ unit.call = "resolveCollision"
  /\ unit.obstacles = << TestObstacle >>
  /\ unit.collision.side = "top"
  /\ unit.character = Placed(200 * PX, 360 * PX, TestCharacterSize, 0, FALSE)
  /\ Penetration(unit.character, TestObstacle)[3] = 0

\* the obstacle list comes from the level generator
GeneratedList == unit.obstacles # << TestObstacle >>

\* C27: for any obstacle list produced by the level generator and any
\* character position, after checkObstacleCollisions has iterated the
\* whole list the character's rectangle strictly overlaps none of the
\* obstacles' rectangles.
C27_NoOverlapAfterCollisionPass ==
  (unit.kind = "PhysicsSystem" /\ unit.call = "checkObstacleCollisions" /\ GeneratedList) =>
    \A i \in 1..Len(unit.obstacles) : ~StrictlyIntersect(unit.character, unit.obstacles[i])

\* a character that overlapped a later obstacle of a generated list when
\* checkObstacleCollisions began, and was moved out of it
C27_Witness ==
  /\ unit.kind = "PhysicsSystem" /\ unit.call = "checkObstacleCollisions"
  /\ GeneratedList
  /\ unit.target > 1
  /\ StrictlyIntersect(unit.before, TargetObstacle)
  /\ unit.character # unit.before

(***************************************************************************)
(* Standing on an obstacle, under PhysicsSpec                              *)
(***************************************************************************)
RestingObstacle == unit.obstacles[unit.restingOn]

\* the bottom of the character is at the top of the obstacle
BottomAtTopOf(c, o) == c.y + c.height = o.y

\* the horizontal centre of the character lies within the span of the
\* obstacle (twice the centre, to stay in whole numbers)
CentreOver(c, o) ==
  /\ 2 * c.x + c.width >= 2 * o.x
  /\ 2 * c.x + c.width <= 2 * (o.x + o.width)

\* resolveCollision has put the character on a top and only frames
\* without input have followed
LeftStanding == unit.kind = "PhysicsSystem" /\ unit.restingOn # 0

\* C28 as stated: once resolved onto the top of an obstacle, the character
\* keeps its bottom at that top through any number of frames without
\* horizontal input or jump.
C28_StandingIsStable ==
  LeftStanding => BottomAtTopOf(unit.character, RestingObstacle)

\* What does hold: a character resolved onto the top of an obstacle with
\* its horizontal centre within the span of the obstacle keeps its bottom
\* at that top, and stays on the ground, through any number of frames
\* without horizontal input or jump.
StandingUnderCentreIsStable ==
  (LeftStanding /\ CentreOver(unit.character, RestingObstacle))
    => /\ BottomAtTopOf(unit.character, RestingObstacle)
       /\ unit.character.isOnGround
       /\ ~unit.character.isJumping
       /\ unit.character.velocityY = 0

\* a frame has run on a character standing with its centre over the
\* obstacle it was resolved onto
StandingUnderCentreReached ==
  /\ LeftStanding
  /\ unit.call = "update"
  /\ CentreOver(unit.character, RestingObstacle)
  /\ BottomAtTopOf(unit.before, RestingObstacle)

(***************************************************************************)
(* GhostCharacter.jump, under PhysicsSpec                                  *)
(***************************************************************************)
JumpCalled == unit.kind = "PhysicsSystem" /\ unit.call = "jump"

Grounded(c) == c.isOnGround /\ ~c.isJumping

\* C29: for a character on the ground and not jumping, jump() sets
\* velocityY to -400, which is upwards, sets isJumping, clears isOnGround,
\* and leaves x and y (and the size) as they were.
C29_JumpFromGround ==
  (JumpCalled /\ Grounded(unit.before))
    => /\ unit.character.velocityY = -400 * PX
       /\ unit.character.velocityY < 0
       /\ unit.character.isJumping
       /\ ~unit.character.isOnGround
       /\ unit.character.x = unit.before.x
       /\ unit.character.y = unit.before.y
       /\ unit.character.width = unit.before.width
       /\ unit.character.height = unit.before.height

\* a grounded character that was moving downwards or at rest has jumped
C29_Witness ==
  /\ JumpCalled
  /\ Grounded(unit.before)
  /\ unit.before.velocityY >= 0
  /\ unit.character.velocityY = JUMP_STRENGTH

\* C30: for a character that is jumping, or not on the ground, jump()
\* changes nothing, so a second jump() right after a first changes
\* nothing either.
C30_JumpInTheAirIsNoOp ==
  [][ unit'.call = "jump"
        => /\ (unit.character.isJumping \/ ~unit.character.isOnGround)
                => unit'.character = unit.character
           /\ unit.call = "jump" => unit'.character = unit.character ]_vars

\* jump() has been called twice in a row on a character that left the
\* ground with the first call, and on a character falling in the air
C30_Witness ==
  /\ JumpCalled
  /\ unit.character = unit.before
  /\ unit.character.isJumping
  /\ ~unit.character.isOnGround
  /\ unit.character.velocityY \in {JUMP_STRENGTH, 100 * PX}

(***************************************************************************)
(* GhostCharacter.applyGravity, under PhysicsSpec                          *)
(***************************************************************************)
GravityApplied == unit.kind = "PhysicsSystem" /\ unit.call = "applyGravity"

\* C31: for an airborne character (isJumping) whose velocityY is at most
\* 600, applyGravity(dt) with dt > 0 leaves velocityY at or above its
\* previous value and never above TERMINAL_VELOCITY = 600; for a character
\* that is not jumping applyGravity leaves velocityY (and everything else)
\* unchanged.
C31_GravityMonotoneAndCapped ==
  GravityApplied =>
    /\ (unit.before.isJumping /\ unit.before.velocityY <= 600 * PX)
         => /\ unit.character.velocityY >= unit.before.velocityY
            /\ unit.character.velocityY <= TERMINAL_VELOCITY
            /\ TERMINAL_VELOCITY = 600 * PX
    /\ ~unit.before.isJumping => unit.character = unit.before

\* gravity has been applied to an airborne character moving upwards, and
\* has been cut off at the terminal velocity after repeated calls
C31_Witness ==
  /\ GravityApplied
  /\ unit.before.isJumping
  /\ unit.before.velocityY < unit.character.velocityY
  /\ unit.character.velocityY = TERMINAL_VELOCITY
  /\ unit.character.velocityY - unit.before.velocityY < Travel(GRAVITY, 1)

(***************************************************************************)
(* One-shot triggers and the active direction, under InputSpec             *)
(***************************************************************************)
\* C32: one press of Enter causes at most one door transition or restart,
\* and one press of the space bar at most one jump, however long the key
\* stays down: no frame acts a second time on the trigger of a key that
\* has stayed down.
C32_OneActPerPress ==
  unit.kind = "InputHandler" => \A key \in OneShotKeys : unit.acted[key] <= 1

DirectionOf(key) == IF key = "ArrowLeft" THEN "left" ELSE "right"

\* C35: after any sequence of keydown and keyup events of the arrow keys,
\* repeated keydowns of a key that is down included, getActiveDirection()
\* is the direction of the arrow key that went down last among those that
\* are down, and null exactly when no arrow key is down.
C35_ActiveDirectionIsLatestHeld ==
  unit.kind = "InputHandler" =>
    /\ unit.in.activeDirection =
         IF unit.order = << >> THEN "none"
         ELSE DirectionOf(unit.order[Len(unit.order)])
    /\ unit.in.activeDirection = "none" <=> unit.held \cap ArrowKeys = {}
    /\ unit.in.left <=> "ArrowLeft" \in unit.held
    /\ unit.in.right <=> "ArrowRight" \in unit.held

\* both arrow keys are down, the left one having gone down last, and the
\* direction is left
C35_Witness ==
  /\ unit.kind = "InputHandler"
  /\ unit.call = "handleKeyDown"
  /\ unit.order = << "ArrowRight", "ArrowLeft" >>
  /\ unit.in.activeDirection = "left"
  /\ unit.in.right

(***************************************************************************)
(* Invalid deltaTime, under InvalidDtSpec                                  *)
(***************************************************************************)
\* C33: a frame with a negative deltaTime is skipped: update(dt) with
\* dt < 0 leaves the character's x, y and velocityY, the remaining time of
\* the countdown and the falling timer unchanged.
C33_NegativeDtIsSkipped ==
  [][ (unit'.kind = "update" /\ unit'.dt < 0)
        => /\ character'.x = character.x
           /\ character'.y = character.y
           /\ character'.velocityY = character.velocityY
           /\ timeoutManager'.timeRemaining = timeoutManager.timeRemaining
           /\ fallingTimer' = fallingTimer ]_vars

(***************************************************************************)
(* The edge-walk check, under PhysicsSpec                                  *)
(***************************************************************************)
CollisionPassDone == unit.kind = "PhysicsSystem" /\ unit.call = "checkObstacleCollisions"

\* the character after the collisions of the pass have been resolved, and
\* whether one of them was resolved onto a top
AfterResolving == ResolveLoop(unit.before, unit.obstacles, 1, FALSE)

\* centre-x within the span of an obstacle and the bottom less than 5
\* pixels from its top
RestingOnAnObstacle(c, obs) ==
  \E i \in 1..Len(obs) :
     /\ CentreOver(c, obs[i])
     /\ (c.y + c.height) - obs[i].y < 5 * PX
     /\ obs[i].y - (c.y + c.height) < 5 * PX

OnGroundPlane(c) == c.y + c.height >= GROUND_Y - 5 * PX

C36_OnGroundIffNotJumping ==
  character.isOnGround = ~character.isJumping

\* a frame of a game level has left the character in the air, jumping and
\* not on the ground, at the top of its way
C36_Witness ==
  /\ currentLevel > 0
  /\ updatePath = "level"
  /\ character.isJumping
  /\ ~character.isOnGround
  /\ character.velocityY = 0
  /\ character.y + character.height < GROUND_Y

(***************************************************************************)
(* The tier and the deferred transition, under Spec                        *)
(***************************************************************************)
\* the step runs the callback of a deferred transition
CallbackFires == pending # << >> /\ pending' = Tail(pending)

\* C37: the tier is always in 0..6 and never decreases: it changes only by
\* +1, in the step in which a deferred transition fires, and a restart
\* re-enters tier 0 only from tier 0.
C37_TierOnlyAdvancesByOne ==
  /\ [](currentLevel \in 0..6)
  /\ [][ /\ currentLevel' >= currentLevel
         /\ currentLevel' # currentLevel
              => (currentLevel' = currentLevel + 1 /\ CallbackFires)
         /\ Restarts => (currentLevel = 0 /\ currentLevel' = 0) ]_vars

\* the game has advanced from the starting area to the second tier
C37_Witness ==
  /\ currentLevel = 2
  /\ gameStatus = "playing"
  /\ pending = << >>

\* C38: at most one deferred level transition is pending at any time, and
\* when its callback fires the status is still transitioning: while it is
\* pending no frame starts another transition, a win, a loss, a fall or a
\* timeout.
C38_OnePendingTransition ==
  /\ [](Len(pending) <= 1)
  /\ [](pending # << >> => (gameStatus = "transitioning" /\ ~isFalling))
  /\ [][ /\ CallbackFires => gameStatus = "transitioning"
         /\ (pending # << >> /\ ~CallbackFires)
              => /\ pending' = pending
                 /\ gameStatus' = gameStatus
                 /\ isFalling' = isFalling
                 /\ timeoutManager' = timeoutManager ]_vars

\* a transition scheduled on a game level is pending while a frame runs
C38_Witness ==
  /\ pending # << >>
  /\ currentLevel > 0
  /\ updatePath = "idle"

(***************************************************************************)
(* The falling sub-state, under Spec                                       *)
(***************************************************************************)
\* C39: falling is irrevocable: once the falling sub-state has started,
\* every frame only advances the falling timer and sinks the character; no
\* directional, jump or Enter input, no countdown update and no door, prize
\* or obstacle check is processed, and the next change of the status is to
\* lost, after which the status never changes again.
C39_FallingIsIrrevocable ==
  [][ /\ (isFalling /\ Updated)
           => /\ updatePath' = "falling"
              /\ fallingTimer' >= fallingTimer
              /\ character'.y >= character.y
              /\ character' = [character EXCEPT !.y = character'.y]
              /\ input' = input
              /\ timeoutManager' = timeoutManager
              /\ door' = door
              /\ chalice' = chalice
              /\ obstacles' = obstacles
              /\ currentLevel' = currentLevel
              /\ pending' = pending
      /\ isFalling
           => /\ gameStatus' \in {gameStatus, "lost"}
              /\ isFalling' \/ gameStatus' = "lost"
              /\ gameStatus' = "lost" => Updated
      /\ gameStatus = "lost" => (gameStatus' = "lost" /\ ~isFalling') ]_vars

\* the frame in which the fall ended in the loss, with a direction key
\* held and Enter pressed
C39_Witness ==
  /\ gameStatus = "lost"
  /\ updatePath = "falling"
  /\ ~isFalling
  /\ input.activeDirection # "none"
  /\ input.enterPressed

(***************************************************************************)
(* The vertical loss trigger, under Spec                                   *)
(***************************************************************************)
\* the step starts the falling sub-state
FallStarts == ~isFalling /\ isFalling'

\* C40: at tiers 1-6 the vertical loss trigger is unreachable: the ground
\* plane is checked at every x before the boundary test, so the test
\* character.y > GROUND_Y + 100 never starts the falling sub-state, and at
\* a tier above 0 falling is started only by the character leaving the
\* horizontal range [0, 1200].
C40_NoVerticalLossOnLevels ==
  /\ []((currentLevel > 0 /\ ~isFalling /\ gameStatus # "lost")
          => character.y <= GROUND_Y + 100 * PX)
  /\ [][ (currentLevel > 0 /\ FallStarts)
           => /\ character'.y <= GROUND_Y + 100 * PX
              /\ character'.x < 0 \/ character'.x + character'.width > 1200 * PX ]_vars

\* a frame of a game level has started the fall of a character that left
\* the platform at its left end
C40_Witness ==
  /\ currentLevel > 0
  /\ updatePath = "level"
  /\ isFalling
  /\ fallingTimer = 0
  /\ character.x < 0

====
